---- MODULE Spec2Model ----
(***************************************************************************)
(* Model of the example rollup: the account ledger (src/src/state.rs),     *)
(* signed transactions (src/src/transaction.rs) and the mock proofs        *)
(* (src/src/prover.rs).                                                    *)
(*                                                                         *)
(* Option<T> is modelled as a sequence of length 0 (None) or 1 (Some).     *)
(* Commitments (hashes) are modelled as the committed content itself, an   *)
(* injective stand-in for a collision-free hash.                           *)
(***************************************************************************)
EXTENDS Integers, Sequences, FiniteSets, TLC

\* ------------------------------------------------------------------ bounds
\* Largest value of the unsigned type of Amount and Nonce (u64::MAX), scaled
\* down; arithmetic on amounts is modulo U64Max + 1.
U64Max == 10000
\* Largest transaction nonce the environment submits.
MaxNonce == 2
\* Largest number of namespace leaves in one block.
MaxBlockTxs == 2
\* Largest number of blocks executed on one ledger.
MaxBlocks == 1
\* Largest number of proofs handed to BatchProof::generate.
MaxProofs == 3
\* Largest state commitment value handed to BatchProof::generate.
MaxComm == 1
\* Largest number of events the settlement event stream delivers.
MaxEvents == 2
\* Largest number of failed submission attempts for one range.
MaxRetries == 1
\* The delay between two submission attempts (Duration::from_secs(1)).
RetryDelay == 1

\* ------------------------------------------------------------ input sets
Addresses == {"alice", "bob", "carol"}
\* Wallets that sign transactions.
Wallets == {"alice", "bob"}
\* Balances a genesis ledger is seeded with.
GenesisAmounts == {100, 9999}
\* Amounts of submitted transactions.
TxAmounts == {0, 50, 110}
\* Destinations of submitted transactions.
Destinations == {"bob", "carol"}
\* Addresses a genesis ledger is seeded with.
GenesisAddresses == {"alice", "bob"}
\* A signature from which no address can be recovered.
BadSignature == "bad"
\* Largest number of (address, amount) pairs a genesis ledger is built from.
MaxGenesis == 3
\* NMT roots of blocks.
Roots == {1, 2}
\* The rollup's VM id (RollupVM::new(1.into())).
VmId == 1
\* The VM id of another rollup on the same sequencer.
OtherVmId == 2
\* The num_blocks a NewBlocks event announces.
RangeSizes == {0, 1, 2}
\* The API's request handlers that may run at the same time.
Handlers == {"h1", "h2"}
\* A request parameter that is no hex-encoded address.
MalformedAddress == "zz"
\* The address parameters of balance and nonce requests.
QueriedAddresses == {"alice", "bob", MalformedAddress}

None == << >>
Some(x) == << x >>

VARIABLES
    accounts,               \* State.accounts: address -> Account
    nmt_comm,               \* State.nmt_comm: Option<Commitment<NMTRoot>>
    prev_state_commitment,  \* State.prev_state_commitment: Option<Commitment<State>>
    genesis,                \* the accounts the ledger was created with
    overflow_checks,        \* build profile: TRUE = arithmetic overflow panics, FALSE = wraps
    panicked,               \* the thread has panicked
    blocks_done,            \* number of execute_block calls so far
    last,                   \* the last call and what it returned
    times_applied,          \* signed transaction -> how often it was applied with Ok
    proofs,                 \* the argument of BatchProof::generate
    batch_result,           \* what BatchProof::generate returned
    tree,                   \* State.accounts as the BTreeMap stores it: entries in key order
    twin,                   \* a second ledger, run beside the first for comparison
    pc,                     \* where run_executor is
    commits_stream,         \* the events the settlement event stream still delivers
    header_stream,          \* the header stream: next height, and whether it has closed
    hotshot_contract,       \* the HotShot contract: which block's record differs from consensus
    event,                  \* the NewBlocks event being processed
    headers,                \* the headers collected for the event
    block_i,                \* the index i of the block loop
    fetched_proof,          \* the namespace proof fetched for the current block
    call,                   \* the verify_blocks call being sent
    attempts,               \* failed attempts of the current call
    slept,                  \* time slept between attempts of the current call
    rollup_contract,        \* the rollup contract: state commitment, verified height, updates
    output_stream,          \* Option of the broadcast channel: its receivers, and the
                            \* (block index, state) pairs queued for them
    trace,                  \* what the executor has done so far
    lock,                   \* the RwLock around the ledger: its writer and its readers
    api,                    \* what each API request handler is doing
    response,               \* the last response of the API
    block_run               \* execute_block in progress: entry commitment, leaves left, results

vars == << accounts, nmt_comm, prev_state_commitment, genesis, overflow_checks,
           panicked, blocks_done, last, times_applied, proofs, batch_result,
           tree, twin, pc, commits_stream, header_stream, hotshot_contract, event, headers,
           block_i,
           fetched_proof, call, attempts, slept, rollup_contract, output_stream,
           trace, lock, api, response, block_run >>

batch_vars == << proofs, batch_result >>

commit_vars == << tree, twin >>

ledger_vars == << accounts, nmt_comm, prev_state_commitment >>

loop_vars == << event, headers, block_i, fetched_proof >>

send_vars == << call, attempts, slept >>

static_vars == << genesis, overflow_checks, times_applied, commit_vars, hotshot_contract >>

api_vars == << lock, api, response, block_run >>

exec_vars == << pc, commits_stream, header_stream, hotshot_contract, loop_vars, send_vars,
                rollup_contract, output_stream, trace, api_vars >>

\* ------------------------------------------------------------- transactions
\* Transaction {amount, destination, nonce}
Transaction == [amount : TxAmounts, destination : Destinations, nonce : 0..MaxNonce]

\* SignedTransaction {transaction, signature}; a signature is modelled by the
\* wallet that produced it over this transaction, or BadSignature.
SignedTransaction == [transaction : Transaction, signature : Wallets \cup {BadSignature}]

\* SignedTransaction::new
SignedTransaction_new(transaction, wallet) ==
    [transaction |-> transaction, signature |-> wallet]

\* RollupError variants and the panic outcome
Ok == [kind |-> "Ok"]
Panic == [kind |-> "Panic"]
SignatureError == [kind |-> "SignatureError"]
InsufficientBalance(a) == [kind |-> "InsufficientBalance", address |-> a]
InvalidNonce(a, e, n) == [kind |-> "InvalidNonce", address |-> a, expected |-> e, actual |-> n]

IsErr(r) == r.kind \in {"SignatureError", "InsufficientBalance", "InvalidNonce"}

\* SignedTransaction::recover: Ok(address) or Err(SignatureError)
recover(stx) ==
    IF stx.signature = BadSignature
    THEN [ok |-> FALSE, err |-> SignatureError]
    ELSE [ok |-> TRUE, address |-> stx.signature]

\* ------------------------------------------------------------------ ledger
\* Account::default()
Account_default == [balance |-> 0, nonce |-> 0]

\* State as a value: the three mutable fields of struct State
StateOf(a, n, p) == [accounts |-> a, nmt_comm |-> n, prev_state_commitment |-> p]

\* State::from_initial_balances as it would be if the first pair of an
\* address were kept.
from_initial_balances_first_kept(initial_balances) ==
    LET first(a) == CHOOSE i \in DOMAIN initial_balances :
                       /\ initial_balances[i][1] = a
                       /\ \A j \in 1..(i - 1) : initial_balances[j][1] # a
    IN StateOf([a \in {initial_balances[i][1] : i \in DOMAIN initial_balances} |->
                   [balance |-> initial_balances[first(a)][2], nonce |-> 0]],
               None, None)

\* State::from_initial_balances: inserts the pairs in order, a later pair for
\* the same address replacing the earlier one; nonce 0, no chain pointers.
RECURSIVE InsertAll(_, _)
InsertAll(accts, pairs) ==
    IF pairs = << >> THEN accts
    ELSE LET addr == Head(pairs)[1]
             amount == Head(pairs)[2]
             acct == [balance |-> amount, nonce |-> 0]
             inserted == [a \in (DOMAIN accts) \cup {addr} |->
                             IF a = addr THEN acct ELSE accts[a]]
         IN InsertAll(inserted, Tail(pairs))

from_initial_balances(initial_balances) ==
    StateOf(InsertAll(<< >>, initial_balances), None, None)

\* accounts.entry(destination).or_default()
or_default(accts, destination) ==
    IF destination \in DOMAIN accts THEN accts
    ELSE [a \in (DOMAIN accts) \cup {destination} |->
             IF a = destination THEN Account_default ELSE accts[a]]

\* apply_transaction as it would be if the destination's balance were read
\* before the sender is debited and written back after.
apply_transaction_stale_destination(accts, stx, checks) ==
    LET rec == recover(stx)
        sender == rec.address
        destination == stx.transaction.destination
        next_nonce == stx.transaction.nonce
        transfer_amount == stx.transaction.amount
    IN
    IF ~rec.ok THEN [accounts |-> accts, result |-> rec.err]
    ELSE IF sender \notin DOMAIN accts
    THEN [accounts |-> accts, result |-> InsufficientBalance(sender)]
    ELSE IF next_nonce # accts[sender].nonce + 1
    THEN [accounts |-> accts,
          result |-> InvalidNonce(sender, accts[sender].nonce + 1, next_nonce)]
    ELSE IF transfer_amount > accts[sender].balance
    THEN [accounts |-> accts, result |-> InsufficientBalance(sender)]
    ELSE LET debited == [accts EXCEPT ![sender] =
                            [balance |-> @.balance - transfer_amount,
                             nonce |-> next_nonce]]
             entered == or_default(debited, destination)
             sum == or_default(accts, destination)[destination].balance + transfer_amount
         IN IF sum > U64Max /\ checks
            THEN [accounts |-> entered, result |-> Panic]
            ELSE [accounts |-> [entered EXCEPT ![destination].balance = sum % (U64Max + 1)],
                  result |-> Ok]

\* apply_transaction as it would be if the destination were credited before
\* the sender is debited.
apply_transaction_credit_first(accts, stx, checks) ==
    LET rec == recover(stx)
        sender == rec.address
        destination == stx.transaction.destination
        next_nonce == stx.transaction.nonce
        transfer_amount == stx.transaction.amount
    IN
    IF ~rec.ok THEN [accounts |-> accts, result |-> rec.err]
    ELSE IF sender \notin DOMAIN accts
    THEN [accounts |-> accts, result |-> InsufficientBalance(sender)]
    ELSE IF next_nonce # accts[sender].nonce + 1
    THEN [accounts |-> accts,
          result |-> InvalidNonce(sender, accts[sender].nonce + 1, next_nonce)]
    ELSE IF transfer_amount > accts[sender].balance
    THEN [accounts |-> accts, result |-> InsufficientBalance(sender)]
    ELSE LET entered == or_default(accts, destination)
             sum == entered[destination].balance + transfer_amount
             credited == [entered EXCEPT ![destination].balance = sum % (U64Max + 1)]
         IN IF sum > U64Max /\ checks
            THEN [accounts |-> entered, result |-> Panic]
            ELSE [accounts |-> [credited EXCEPT ![sender] =
                                   [balance |-> (@.balance - transfer_amount) % (U64Max + 1),
                                    nonce |-> next_nonce]],
                  result |-> Ok]

\* apply_transaction as it would be if the balance were validated before
\* the nonce.
apply_transaction_balance_first(accts, stx, checks) ==
    LET rec == recover(stx)
        sender == rec.address
        destination == stx.transaction.destination
        next_nonce == stx.transaction.nonce
        transfer_amount == stx.transaction.amount
    IN
    IF ~rec.ok THEN [accounts |-> accts, result |-> rec.err]
    ELSE IF sender \notin DOMAIN accts
    THEN [accounts |-> accts, result |-> InsufficientBalance(sender)]
    ELSE IF transfer_amount > accts[sender].balance
    THEN [accounts |-> accts, result |-> InsufficientBalance(sender)]
    ELSE IF next_nonce # accts[sender].nonce + 1
    THEN [accounts |-> accts,
          result |-> InvalidNonce(sender, accts[sender].nonce + 1, next_nonce)]
    ELSE LET debited == [accts EXCEPT ![sender] =
                            [balance |-> @.balance - transfer_amount,
                             nonce |-> next_nonce]]
             entered == or_default(debited, destination)
             sum == entered[destination].balance + transfer_amount
         IN IF sum > U64Max /\ checks
            THEN [accounts |-> entered, result |-> Panic]
            ELSE [accounts |-> [entered EXCEPT ![destination].balance = sum % (U64Max + 1)],
                  result |-> Ok]

\* apply_transaction as it would be if the nonce were written before the
\* balance is validated.
apply_transaction_nonce_first(accts, stx, checks) ==
    LET rec == recover(stx)
        sender == rec.address
        destination == stx.transaction.destination
        next_nonce == stx.transaction.nonce
        transfer_amount == stx.transaction.amount
    IN
    IF ~rec.ok THEN [accounts |-> accts, result |-> rec.err]
    ELSE IF sender \notin DOMAIN accts
    THEN [accounts |-> accts, result |-> InsufficientBalance(sender)]
    ELSE IF next_nonce # accts[sender].nonce + 1
    THEN [accounts |-> accts,
          result |-> InvalidNonce(sender, accts[sender].nonce + 1, next_nonce)]
    ELSE IF transfer_amount > accts[sender].balance
    THEN [accounts |-> [accts EXCEPT ![sender].nonce = next_nonce],
          result |-> InsufficientBalance(sender)]
    ELSE LET debited == [accts EXCEPT ![sender] =
                            [balance |-> @.balance - transfer_amount,
                             nonce |-> next_nonce]]
             entered == or_default(debited, destination)
             sum == entered[destination].balance + transfer_amount
         IN IF sum > U64Max /\ checks
            THEN [accounts |-> entered, result |-> Panic]
            ELSE [accounts |-> [entered EXCEPT ![destination].balance = sum % (U64Max + 1)],
                  result |-> Ok]

\* apply_transaction as it would be without `*prev_nonce = next_nonce`.
apply_transaction_keeps_nonce(accts, stx, checks) ==
    LET rec == recover(stx)
        sender == rec.address
        destination == stx.transaction.destination
        next_nonce == stx.transaction.nonce
        transfer_amount == stx.transaction.amount
    IN
    IF ~rec.ok THEN [accounts |-> accts, result |-> rec.err]
    ELSE IF sender \notin DOMAIN accts
    THEN [accounts |-> accts, result |-> InsufficientBalance(sender)]
    ELSE IF next_nonce # accts[sender].nonce + 1
    THEN [accounts |-> accts,
          result |-> InvalidNonce(sender, accts[sender].nonce + 1, next_nonce)]
    ELSE IF transfer_amount > accts[sender].balance
    THEN [accounts |-> accts, result |-> InsufficientBalance(sender)]
    ELSE LET debited == [accts EXCEPT ![sender].balance = @ - transfer_amount]
             entered == or_default(debited, destination)
             sum == entered[destination].balance + transfer_amount
         IN IF sum > U64Max /\ checks
            THEN [accounts |-> entered, result |-> Panic]
            ELSE [accounts |-> [entered EXCEPT ![destination].balance = sum % (U64Max + 1)],
                  result |-> Ok]

\* apply_transaction as it would be without the balance validation.
apply_transaction_unchecked_debit(accts, stx, checks) ==
    LET rec == recover(stx)
        sender == rec.address
        destination == stx.transaction.destination
        next_nonce == stx.transaction.nonce
        transfer_amount == stx.transaction.amount
    IN
    IF ~rec.ok THEN [accounts |-> accts, result |-> rec.err]
    ELSE IF sender \notin DOMAIN accts
    THEN [accounts |-> accts, result |-> InsufficientBalance(sender)]
    ELSE IF next_nonce # accts[sender].nonce + 1
    THEN [accounts |-> accts,
          result |-> InvalidNonce(sender, accts[sender].nonce + 1, next_nonce)]
    ELSE LET debited == [accts EXCEPT ![sender] =
                            [balance |-> @.balance - transfer_amount,
                             nonce |-> next_nonce]]
             entered == or_default(debited, destination)
             sum == entered[destination].balance + transfer_amount
         IN IF sum > U64Max /\ checks
            THEN [accounts |-> entered, result |-> Panic]
            ELSE [accounts |-> [entered EXCEPT ![destination].balance = sum % (U64Max + 1)],
                  result |-> Ok]

\* State::apply_transaction on the accounts map; returns the map it leaves
\* behind and the outcome.  `checks` is the build profile: when the credit
\* `+=` passes U64Max it panics (checks) or wraps (no checks), after the debit
\* and the nonce were written.  `*prev_nonce + 1` cannot overflow here: a
\* nonce only reaches MaxNonce.
apply_transaction(accts, stx, checks) ==
    LET rec == recover(stx)
        sender == rec.address
        destination == stx.transaction.destination
        next_nonce == stx.transaction.nonce
        transfer_amount == stx.transaction.amount
    IN
    IF ~rec.ok THEN [accounts |-> accts, result |-> rec.err]
    ELSE IF sender \notin DOMAIN accts
    THEN [accounts |-> accts, result |-> InsufficientBalance(sender)]
    ELSE IF next_nonce # accts[sender].nonce + 1
    THEN [accounts |-> accts,
          result |-> InvalidNonce(sender, accts[sender].nonce + 1, next_nonce)]
    ELSE IF transfer_amount > accts[sender].balance
    THEN [accounts |-> accts, result |-> InsufficientBalance(sender)]
    ELSE LET debited == [accts EXCEPT ![sender] =
                            [balance |-> @.balance - transfer_amount,
                             nonce |-> next_nonce]]
             entered == or_default(debited, destination)
             sum == entered[destination].balance + transfer_amount
         IN IF sum > U64Max /\ checks
            THEN [accounts |-> entered, result |-> Panic]
            ELSE [accounts |-> [entered EXCEPT ![destination].balance = sum % (U64Max + 1)],
                  result |-> Ok]

\* Address: Ord, the key order of BTreeMap<Address, Account>
KeyRank(a) == CASE a = "alice" -> 1 [] a = "bob" -> 2 [] a = "carol" -> 3

\* BTreeMap::new
BTreeMap_new == << >>

\* BTreeMap::insert as it would be if the map kept its entries in the order
\* of their first insertion.
BTreeMap_insert_appending(entries, k, v) ==
    IF \E i \in DOMAIN entries : entries[i][1] = k
    THEN [i \in DOMAIN entries |-> IF entries[i][1] = k THEN << k, v >> ELSE entries[i]]
    ELSE Append(entries, << k, v >>)

\* BTreeMap::insert on the entries in key order: the value of a present key
\* is replaced, a new key is entered at its place in the order.
BTreeMap_insert(entries, k, v) ==
    IF \E i \in DOMAIN entries : entries[i][1] = k
    THEN [i \in DOMAIN entries |-> IF entries[i][1] = k THEN << k, v >> ELSE entries[i]]
    ELSE LET below == SelectSeq(entries, LAMBDA e : KeyRank(e[1]) < KeyRank(k))
             above == SelectSeq(entries, LAMBDA e : KeyRank(e[1]) > KeyRank(k))
         IN below \o << << k, v >> >> \o above

\* The loop of from_initial_balances on the BTreeMap
RECURSIVE BTreeMap_collect(_, _)
BTreeMap_collect(entries, pairs) ==
    IF pairs = << >> THEN entries
    ELSE BTreeMap_collect(BTreeMap_insert(entries, Head(pairs)[1],
                                          [balance |-> Head(pairs)[2], nonce |-> 0]),
                          Tail(pairs))

\* The map a BTreeMap holds: key -> value
AsMap(entries) ==
    [k \in {entries[i][1] : i \in DOMAIN entries} |->
        (CHOOSE e \in {entries[i] : i \in DOMAIN entries} : e[1] = k)[2]]

\* serde_json::to_string(&self.accounts): one member per entry, in the order
\* the map iterates
to_string(entries) ==
    [i \in DOMAIN entries |->
        [key |-> entries[i][1], balance |-> entries[i][2].balance, nonce |-> entries[i][2].nonce]]

\* get_balance as it would be if it read the account's nonce.
get_balance_reads_nonce(accts, address) ==
    IF address \in DOMAIN accts THEN accts[address].nonce ELSE 0

\* State::get_balance
get_balance(accts, address) ==
    IF address \in DOMAIN accts THEN accts[address].balance ELSE 0

\* State::get_nonce
get_nonce(accts, address) ==
    IF address \in DOMAIN accts THEN accts[address].nonce ELSE 0

\* commit() as it would be if the hash left out the block hash.
commit_without_block_hash(st) ==
    [block_hash |-> None,
     prev_state_commitment |-> st.prev_state_commitment,
     accounts |-> st.accounts,
     vm_id |-> VmId]

\* impl Committable for State: the hash covers block_hash, prev_state_commitment,
\* the serialized accounts and the VM id.
commit(st) ==
    [block_hash |-> st.nmt_comm,
     prev_state_commitment |-> st.prev_state_commitment,
     accounts |-> st.accounts,
     vm_id |-> VmId]

\* commit() of a ledger given by its BTreeMap: the accounts field is the
\* serialization of the entries.
commit_entries(entries, nmt, prev) ==
    [commit(StateOf(AsMap(entries), nmt, prev)) EXCEPT !.accounts = to_string(entries)]

\* NMTRoot::commit
NMTRoot_commit(root) == << "NMTRoot", root >>

\* ------------------------------------------------------------------ blocks
\* A namespace leaf: a sequencer transaction {vm, payload}; the payload either
\* decodes to a SignedTransaction (Some) or does not (None).
Leaf(stx) == [vm |-> VmId, payload |-> Some(stx)]
MalformedLeaf == [vm |-> VmId, payload |-> None]

\* SignedTransaction::decode: serde_json::from_slice(bytes).ok()
decode(payload) == payload

\* txn.as_vm(&self.vm): the leaf decoded as a transaction of this VM
as_vm(leaf, vm) == IF leaf.vm = vm THEN decode(leaf.payload) ELSE None

\* A namespace proof: the root and namespace it was built for, and its leaves.
NamespaceProof(root, ns, leaves) == [root |-> root, ns |-> ns, leaves |-> leaves]

\* NamespaceProof::get_namespace_leaves
get_namespace_leaves(namespace_proof) == namespace_proof.leaves

\* NamespaceProof::verify(root, namespace)
verify(namespace_proof, root, ns) ==
    namespace_proof.root = root /\ namespace_proof.ns = ns

\* Proof::generate as it would be without the verification of the namespace
\* proof.
Proof_generate_unverified(nmt_comm_root, state_commitment, previous_state_commitment, namespace_proof, vm) ==
    [kind |-> "Proof",
     block |-> NMTRoot_commit(nmt_comm_root),
     old_state |-> previous_state_commitment,
     new_state |-> state_commitment]

\* Proof::generate: panics unless the namespace proof verifies
Proof_generate(nmt_comm_root, state_commitment, previous_state_commitment, namespace_proof, vm) ==
    IF ~verify(namespace_proof, nmt_comm_root, vm)
    THEN Panic
    ELSE [kind |-> "Proof",
          block |-> NMTRoot_commit(nmt_comm_root),
          old_state |-> previous_state_commitment,
          new_state |-> state_commitment]

\* The loop of execute_block as it would be if the first failing or malformed
\* leaf ended it.
RECURSIVE apply_leaves_until_error(_, _, _, _)
apply_leaves_until_error(accts, leaves, checks, results) ==
    IF leaves = << >> THEN [accounts |-> accts, results |-> results, panicked |-> FALSE]
    ELSE LET rollup_txn == as_vm(Head(leaves), VmId)
         IN IF rollup_txn = None
            THEN [accounts |-> accts,
                  results |-> Append(results, [kind |-> "Malformed"]),
                  panicked |-> FALSE]
            ELSE LET res == apply_transaction(accts, rollup_txn[1], checks)
                 IN IF res.result.kind = "Panic"
                    THEN [accounts |-> res.accounts,
                          results |-> Append(results, Panic),
                          panicked |-> TRUE]
                    ELSE IF res.result.kind # "Ok"
                    THEN [accounts |-> res.accounts,
                          results |-> Append(results, res.result),
                          panicked |-> FALSE]
                    ELSE apply_leaves_until_error(res.accounts, Tail(leaves), checks,
                                                  Append(results, res.result))

\* The loop of execute_block: apply the leaves in order, logging errors and
\* malformed leaves; a panic inside apply_transaction ends the loop.
RECURSIVE apply_leaves(_, _, _, _)
apply_leaves(accts, leaves, checks, results) ==
    IF leaves = << >> THEN [accounts |-> accts, results |-> results, panicked |-> FALSE]
    ELSE LET rollup_txn == as_vm(Head(leaves), VmId)
         IN IF rollup_txn = None
            THEN apply_leaves(accts, Tail(leaves), checks,
                              Append(results, [kind |-> "Malformed"]))
            ELSE LET res == apply_transaction(accts, rollup_txn[1], checks)
                 IN IF res.result.kind = "Panic"
                    THEN [accounts |-> res.accounts,
                          results |-> Append(results, Panic),
                          panicked |-> TRUE]
                    ELSE apply_leaves(res.accounts, Tail(leaves), checks,
                                      Append(results, res.result))

\* State::execute_block as it would be if the new state commitment were taken
\* before the two chain pointers are updated.
execute_block_commits_early(st, nmt_root, namespace_proof, checks) ==
    LET state_commitment == commit(st)
        transactions == get_namespace_leaves(namespace_proof)
        applied == apply_leaves(st.accounts, transactions, checks, << >>)
        early == StateOf(applied.accounts, st.nmt_comm, st.prev_state_commitment)
        after == StateOf(applied.accounts,
                         Some(NMTRoot_commit(nmt_root)),
                         Some(state_commitment))
    IN IF applied.panicked
       THEN [state |-> early, results |-> applied.results, result |-> Panic]
       ELSE [state |-> after,
             results |-> applied.results,
             result |-> Proof_generate(nmt_root, commit(early),
                                       after.prev_state_commitment[1],
                                       namespace_proof, VmId)]

\* State::execute_block; returns the state it leaves behind, the outcome of
\* each leaf, and the Proof (or Panic).
execute_block(st, nmt_root, namespace_proof, checks) ==
    LET state_commitment == commit(st)
        transactions == get_namespace_leaves(namespace_proof)
        applied == apply_leaves(st.accounts, transactions, checks, << >>)
        after == StateOf(applied.accounts,
                         Some(NMTRoot_commit(nmt_root)),
                         Some(state_commitment))
    IN IF applied.panicked
       THEN [state |-> StateOf(applied.accounts, st.nmt_comm, st.prev_state_commitment),
             results |-> applied.results,
             result |-> Panic]
       ELSE [state |-> after,
             results |-> applied.results,
             result |-> Proof_generate(nmt_root, commit(after),
                                       after.prev_state_commitment[1],
                                       namespace_proof, VmId)]

\* ------------------------------------------------------------ batch proofs
\* ProofError::OutOfOrder {position, new_state, old_state}
OutOfOrder(position, new_state, old_state) ==
    [kind |-> "OutOfOrder", position |-> position,
     new_state |-> new_state, old_state |-> old_state]

\* The loop of BatchProof::generate from index i (indices as in the source,
\* from 0; proofs[i] of the source is ps[i + 1] here).
RECURSIVE generate_loop(_, _)
generate_loop(ps, i) ==
    IF i >= Len(ps) - 1
    THEN [kind |-> "BatchProof",
          first_block |-> ps[1].block,
          last_block |-> ps[Len(ps)].block,
          old_state |-> ps[1].old_state,
          new_state |-> ps[Len(ps)].new_state]
    ELSE IF ps[i + 1].new_state # ps[i + 2].old_state
    THEN OutOfOrder(i, ps[i + 1].new_state, ps[i + 1].old_state)
    ELSE generate_loop(ps, i + 1)

\* BatchProof::generate as it would be if the loop started at index 1.
BatchProof_generate_from_one(ps) ==
    IF Len(ps) = 0 THEN Panic ELSE generate_loop(ps, 1)

\* BatchProof::generate as it would be if it spanned the batch from its last
\* proof to its first.
BatchProof_generate_reversed(ps) ==
    IF Len(ps) = 0 THEN Panic
    ELSE LET r == generate_loop(ps, 0)
         IN IF r.kind # "BatchProof" THEN r
            ELSE [kind |-> "BatchProof",
                  first_block |-> ps[Len(ps)].block,
                  last_block |-> ps[1].block,
                  old_state |-> ps[Len(ps)].old_state,
                  new_state |-> ps[1].new_state]

\* BatchProof::generate as it would be if the batch took its old_state from
\* the last proof.
BatchProof_generate_old_state_of_last(ps) ==
    IF Len(ps) = 0 THEN Panic
    ELSE LET r == generate_loop(ps, 0)
         IN IF r.kind # "BatchProof" THEN r
            ELSE [r EXCEPT !.old_state = ps[Len(ps)].old_state]

\* BatchProof::generate.  On an empty slice `proofs.len() - 1` overflows: the
\* subtraction panics when overflow is checked, and otherwise the loop runs
\* and `proofs[0]` panics; both builds panic.
BatchProof_generate(ps) ==
    IF Len(ps) = 0 THEN Panic ELSE generate_loop(ps, 0)

\* ----------------------------------------------------------------- actions
\* Sequences over S of length at most n
SeqUpTo(S, n) == UNION {[1..k -> S] : k \in 0..n}

\* The count of successful applications, with one more of stx
Counted(times, stx) ==
    [t \in (DOMAIN times) \cup {stx} |->
        (IF t \in DOMAIN times THEN times[t] ELSE 0) + (IF t = stx THEN 1 ELSE 0)]

\* The count after a block: one more for every leaf applied with Ok
RECURSIVE CountApplied(_, _, _)
CountApplied(times, leaves, results) ==
    IF leaves = << >> \/ results = << >> THEN times
    ELSE CountApplied(IF Head(results).kind = "Ok"
                      THEN Counted(times, Head(leaves).payload[1]) ELSE times,
                      Tail(leaves), Tail(results))

BatchIdle == proofs = << >> /\ batch_result = [kind |-> "None"]

CommitIdle == tree = BTreeMap_new /\ twin = [kind |-> "None"]

\* No API request is being served and nothing holds the ledger's lock
ApiIdle ==
    /\ lock = [writer |-> "none", readers |-> {}]
    /\ api = [h \in Handlers |-> "idle"]
    /\ response = [kind |-> "None"]
    /\ block_run = None

\* run_executor has not been started
ExecIdle ==
    /\ pc = "idle"
    /\ commits_stream = << >>
    /\ header_stream = [next |-> 0, closed |-> FALSE]
    /\ hotshot_contract = [differs |-> None]
    /\ event = [kind |-> "None"]
    /\ headers = << >>
    /\ block_i = 0
    /\ fetched_proof = None
    /\ call = [kind |-> "None"]
    /\ attempts = 0
    /\ slept = 0
    /\ rollup_contract = [kind |-> "None"]
    /\ output_stream = None
    /\ trace = [kind |-> "None"]
    /\ ApiIdle

\* A ledger fresh from State::from_initial_balances, under either build profile
InitLedger ==
    /\ \E pairs \in SeqUpTo(GenesisAddresses \X GenesisAmounts, MaxGenesis) :
          LET st == from_initial_balances(pairs)
          IN /\ accounts = st.accounts
             /\ nmt_comm = st.nmt_comm
             /\ prev_state_commitment = st.prev_state_commitment
             /\ genesis = st.accounts
    /\ overflow_checks \in BOOLEAN
    /\ panicked = FALSE
    /\ blocks_done = 0
    /\ last = [op |-> "from_initial_balances"]
    /\ times_applied = << >>
    /\ BatchIdle
    /\ CommitIdle
    /\ ExecIdle

\* A call of State::apply_transaction with a transaction of T
ApplyFrom(T) ==
    /\ ~panicked
    /\ \E stx \in T :
          LET r == apply_transaction(accounts, stx, overflow_checks)
          IN /\ accounts' = r.accounts
             /\ last' = [op |-> "apply_transaction", tx |-> stx, result |-> r.result]
             /\ panicked' = (r.result.kind = "Panic")
    /\ UNCHANGED << nmt_comm, prev_state_commitment, genesis, overflow_checks,
                    blocks_done, batch_vars, commit_vars, exec_vars >>

\* A call of State::execute_block with leaves of L
ExecuteFrom(L) ==
    /\ ~panicked
    /\ blocks_done < MaxBlocks
    /\ \E nmt_root \in Roots, proof_root \in Roots, leaves \in SeqUpTo(L, MaxBlockTxs) :
          LET namespace_proof == NamespaceProof(proof_root, VmId, leaves)
              r == execute_block(StateOf(accounts, nmt_comm, prev_state_commitment),
                                 nmt_root, namespace_proof, overflow_checks)
          IN /\ accounts' = r.state.accounts
             /\ nmt_comm' = r.state.nmt_comm
             /\ prev_state_commitment' = r.state.prev_state_commitment
             /\ last' = [op |-> "execute_block", nmt_root |-> nmt_root,
                         namespace_proof |-> namespace_proof,
                         results |-> r.results, result |-> r.result]
             /\ panicked' = (r.result.kind = "Panic")
    /\ blocks_done' = blocks_done + 1
    /\ UNCHANGED << genesis, overflow_checks, batch_vars, commit_vars, exec_vars >>

\* A call of State::get_balance
GetBalance ==
    /\ ~panicked
    /\ \E address \in Addresses :
          last' = [op |-> "get_balance", address |-> address,
                   value |-> get_balance(accounts, address)]
    /\ UNCHANGED << accounts, nmt_comm, prev_state_commitment, genesis, overflow_checks,
                    panicked, blocks_done, times_applied, batch_vars, commit_vars, exec_vars >>

\* A call of State::get_nonce
GetNonce ==
    /\ ~panicked
    /\ \E address \in Addresses :
          last' = [op |-> "get_nonce", address |-> address,
                   value |-> get_nonce(accounts, address)]
    /\ UNCHANGED << accounts, nmt_comm, prev_state_commitment, genesis, overflow_checks,
                    panicked, blocks_done, times_applied, batch_vars, commit_vars, exec_vars >>

\* ---------------------------------------------- specification of the ledger
Init == InitLedger

ApplyTransaction == ApplyFrom(SignedTransaction) /\ UNCHANGED times_applied

Next == ApplyTransaction \/ GetBalance \/ GetNonce

Spec == Init /\ [][Next]_vars

\* ------------------------------- specification of the ledger with blocks
\* The transactions that are sequenced into blocks
BlockTxs ==
    {stx \in SignedTransaction :
        /\ stx.transaction.amount = 50
        /\ stx.transaction.destination = "bob"
        /\ stx.transaction.nonce \in {1, 2}
        /\ stx.signature = "alice"}

BlockLeaves == {Leaf(stx) : stx \in BlockTxs} \cup {MalformedLeaf}

InitBlock == InitLedger

\* This specification also counts the successful applications.
ApplySequenced ==
    /\ ApplyFrom(BlockTxs)
    /\ times_applied' = IF last'.result.kind = "Ok"
                        THEN Counted(times_applied, last'.tx) ELSE times_applied

ExecuteBlock ==
    /\ ExecuteFrom(BlockLeaves)
    /\ times_applied' = CountApplied(times_applied, last'.namespace_proof.leaves,
                                     last'.results)

NextBlock == ApplySequenced \/ ExecuteBlock \/ GetBalance \/ GetNonce

SpecBlock == InitBlock /\ [][NextBlock]_vars

\* ------------------------------------- specification of BatchProof::generate
\* The per-block proofs handed to BatchProof::generate
ProofInputs ==
    [kind : {"Proof"}, block : {NMTRoot_commit(r) : r \in Roots},
     old_state : 0..MaxComm, new_state : 0..MaxComm]

InitBatch ==
    /\ accounts = << >>
    /\ nmt_comm = None
    /\ prev_state_commitment = None
    /\ genesis = << >>
    /\ overflow_checks \in BOOLEAN
    /\ panicked = FALSE
    /\ blocks_done = 0
    /\ last = [op |-> "from_initial_balances"]
    /\ times_applied = << >>
    /\ proofs \in SeqUpTo(ProofInputs, MaxProofs)
    /\ batch_result = [kind |-> "None"]
    /\ CommitIdle
    /\ ExecIdle

\* A call of BatchProof::generate(&proofs)
GenerateBatch ==
    /\ ~panicked
    /\ batch_result.kind = "None"
    /\ batch_result' = BatchProof_generate(proofs)
    /\ panicked' = (batch_result'.kind = "Panic")
    /\ UNCHANGED << accounts, nmt_comm, prev_state_commitment, genesis, overflow_checks,
                    blocks_done, last, times_applied, proofs, commit_vars, exec_vars >>

NextBatch == GenerateBatch

SpecBatch == InitBatch /\ [][NextBatch]_vars

\* ----------------------------------------------- specification of commit()
\* The orders in which a sequence can be handed over
Reorderings(seq) ==
    {[i \in DOMAIN seq |-> seq[f[i]]] :
        f \in {g \in [DOMAIN seq -> DOMAIN seq] : \A i, j \in DOMAIN seq : g[i] = g[j] => i = j}}

\* Two ledgers from State::from_initial_balances, the second given the pairs
\* of the first in some order
InitCommit ==
    /\ \E pairs \in SeqUpTo(GenesisAddresses \X GenesisAmounts, MaxGenesis) :
          \E reordered \in Reorderings(pairs) :
             /\ tree = BTreeMap_collect(BTreeMap_new, pairs)
             /\ twin = [pairs |-> pairs, reordered |-> reordered,
                        tree |-> BTreeMap_collect(BTreeMap_new, reordered),
                        nmt_comm |-> None, prev_state_commitment |-> None]
             /\ accounts = from_initial_balances(pairs).accounts
             /\ genesis = accounts
    /\ nmt_comm = None
    /\ prev_state_commitment = None
    /\ overflow_checks \in BOOLEAN
    /\ panicked = FALSE
    /\ blocks_done = 0
    /\ last = [op |-> "from_initial_balances"]
    /\ times_applied = << >>
    /\ BatchIdle
    /\ ExecIdle

\* The chain pointers execute_block leaves behind for a block that has no
\* leaf of this namespace
execute_empty_block(entries, nmt, prev, nmt_root) ==
    [nmt_comm |-> Some(NMTRoot_commit(nmt_root)),
     prev_state_commitment |-> Some(commit_entries(entries, nmt, prev))]

\* execute_block of a block without leaves on the first ledger
ExecuteEmpty ==
    /\ nmt_comm = None
    /\ \E nmt_root \in Roots :
          LET r == execute_empty_block(tree, nmt_comm, prev_state_commitment, nmt_root)
          IN /\ nmt_comm' = r.nmt_comm
             /\ prev_state_commitment' = r.prev_state_commitment
             /\ last' = [op |-> "execute_block", nmt_root |-> nmt_root]
    /\ UNCHANGED << accounts, genesis, overflow_checks, panicked, blocks_done,
                    times_applied, batch_vars, commit_vars, exec_vars >>

\* execute_block of a block without leaves on the second ledger
TwinExecuteEmpty ==
    /\ twin.nmt_comm = None
    /\ \E nmt_root \in Roots :
          LET r == execute_empty_block(twin.tree, twin.nmt_comm,
                                       twin.prev_state_commitment, nmt_root)
          IN /\ twin' = [twin EXCEPT !.nmt_comm = r.nmt_comm,
                                     !.prev_state_commitment = r.prev_state_commitment]
             /\ last' = [op |-> "execute_block", nmt_root |-> nmt_root]
    /\ UNCHANGED << accounts, nmt_comm, prev_state_commitment, genesis, overflow_checks,
                    panicked, blocks_done, times_applied, batch_vars, tree, exec_vars >>

\* commit() on both ledgers
CommitBoth ==
    /\ last' = [op |-> "commit",
                a |-> commit_entries(tree, nmt_comm, prev_state_commitment),
                b |-> commit_entries(twin.tree, twin.nmt_comm, twin.prev_state_commitment)]
    /\ UNCHANGED << accounts, nmt_comm, prev_state_commitment, genesis, overflow_checks,
                    panicked, blocks_done, times_applied, batch_vars, commit_vars, exec_vars >>

NextCommit == ExecuteEmpty \/ TwinExecuteEmpty \/ CommitBoth

SpecCommit == InitCommit /\ [][NextCommit]_vars

\* ------------------------------------------------------------ the executor
\* The consensus chain: the header of the block at a height, and its commitment
RootOf(height) == (height % 2) + 1

Header(height) == [height |-> height, transactions_root |-> RootOf(height)]

Header_commit(header) == << "Header", header >>

\* commitment_to_u256 and u256_to_commitment
commitment_to_u256(comm) == << "U256", comm >>

u256_to_commitment(u256) == u256[2]

\* A block at a height that is not the one consensus decided
OtherHeader(height) == [height |-> height, transactions_root |-> 0]

\* hotshot_contract.commitments(n): the commitment recorded for block n, that
\* of the consensus header unless the contract's record differs for n
hotshot_commitments(n) ==
    IF hotshot_contract.differs = Some(n)
    THEN commitment_to_u256(Header_commit(OtherHeader(n)))
    ELSE commitment_to_u256(Header_commit(Header(n)))

\* The leaves of the rollup's namespace in the block at a height
NamespaceTx(n) ==
    SignedTransaction_new([amount |-> 50, destination |-> "bob", nonce |-> n], "alice")

ChainLeaves(height) ==
    IF height % 2 = 0
    THEN << Leaf(NamespaceTx(height + 1)) >>
    ELSE << MalformedLeaf, Leaf(NamespaceTx(height)), Leaf(NamespaceTx(height + 1)) >>

\* The items of the settlement event stream
NewBlocks(first, n) == [kind |-> "NewBlocks", first_block_number |-> first, num_blocks |-> n]

StreamError == [kind |-> "Err"]

\* The events for consecutive ranges of the given sizes, from block `first`;
\* where `lost` holds the stream delivers an error in place of the event.
RECURSIVE Announced(_, _, _)
Announced(sizes, lost, first) ==
    IF sizes = << >> THEN << >>
    ELSE << IF Head(lost) THEN StreamError ELSE NewBlocks(first, Head(sizes)) >>
         \o Announced(Tail(sizes), Tail(lost), first + Head(sizes))

\* example_rollup::BatchProof::from(proof)
bindings_BatchProof_from(p) ==
    [first_block |-> commitment_to_u256(p.first_block),
     last_block |-> commitment_to_u256(p.last_block),
     old_state |-> commitment_to_u256(p.old_state),
     new_state |-> commitment_to_u256(p.new_state)]

\* rollup_contract.verify_blocks(num_blocks, state_comm, proof)
verify_blocks(count, state_comm, proof) ==
    [count |-> count, next_state_commitment |-> state_comm, proof |-> proof]

\* The published item as it would be if it carried the index within the range.
published_index_in_range(first_block, i, st) == << i, st >>

\* (first_block.as_u64() + (i as u64), state.clone()): what is published
\* for the i-th block of a range
published(first_block, i, st) == << first_block + i, st >>

\* BroadcastSender::send_async: the item is queued for every receiver; with
\* no receiver nothing is queued, with a dropped receiver the send fails.
send_async(stream, item) ==
    IF stream.receivers = "idle"
    THEN [stream EXCEPT !.queued = Append(@, item)]
    ELSE stream

\* The ledger behind the Arc<RwLock<State>>
TheState == StateOf(accounts, nmt_comm, prev_state_commitment)

\* The genesis ledger of the executor tests
TestGenesis == from_initial_balances(<< << "alice", 9999 >> >>)

\* run_executor is started on a fresh ledger, the rollup contract deployed
\* with the ledger's commitment; the settlement chain will announce some
\* consecutive ranges, any of which the event stream may deliver as an error,
\* and its record for one of the blocks may differ from the consensus header.
InitExec ==
    /\ accounts = TestGenesis.accounts
    /\ nmt_comm = TestGenesis.nmt_comm
    /\ prev_state_commitment = TestGenesis.prev_state_commitment
    /\ genesis = TestGenesis.accounts
    /\ overflow_checks \in BOOLEAN
    /\ panicked = FALSE
    /\ blocks_done = 0
    /\ last = [op |-> "from_initial_balances"]
    /\ times_applied = << >>
    /\ BatchIdle
    /\ CommitIdle
    /\ pc = "next_event"
    /\ \E sizes \in SeqUpTo(RangeSizes, MaxEvents) :
          \E lost \in [DOMAIN sizes -> BOOLEAN] :
             commits_stream = Announced(sizes, lost, 0)
    /\ header_stream = [next |-> 0, closed |-> FALSE]
    /\ hotshot_contract \in [differs : {None} \cup {Some(n) : n \in 0..MaxEvents}]
    /\ event = [kind |-> "None"]
    /\ headers = << >>
    /\ block_i = 0
    /\ fetched_proof = None
    /\ call = [kind |-> "None"]
    /\ attempts = 0
    /\ slept = 0
    /\ rollup_contract = [state_commitment |-> commitment_to_u256(commit(TestGenesis)),
                          block_height |-> 0, updates |-> << >>]
    /\ output_stream \in {None} \cup {Some([receivers |-> r, queued |-> << >>]) :
                                         r \in {"none", "dropped", "idle"}}
    /\ trace = [skipped |-> 0, taken |-> << >>, mismatch |-> None, unverified |-> None,
                fetched |-> << >>, executed |-> << >>, sent |-> << >>, fault |-> None]
    /\ ApiIdle

\* The event loop as it would be if an errored event ended it.
NextEvent_stops_on_error ==
    /\ ~panicked
    /\ pc = "next_event"
    /\ commits_stream # << >>
    /\ commits_stream' = Tail(commits_stream)
    /\ IF Head(commits_stream).kind = "Err"
       THEN /\ pc' = "done"
            /\ trace' = [trace EXCEPT !.skipped = @ + 1]
            /\ UNCHANGED event
       ELSE /\ pc' = "collect"
            /\ event' = Head(commits_stream)
            /\ UNCHANGED trace
    /\ UNCHANGED << ledger_vars, static_vars, panicked, blocks_done, last, batch_vars,
                    header_stream, headers, block_i, fetched_proof, send_vars,
                    rollup_contract, output_stream >>
    /\ UNCHANGED api_vars

\* commits_stream.next() yields an event: an error is logged and the loop
\* continues, a NewBlocks event is taken up.
NextEvent ==
    /\ ~panicked
    /\ pc = "next_event"
    /\ commits_stream # << >>
    /\ commits_stream' = Tail(commits_stream)
    /\ IF Head(commits_stream).kind = "Err"
       THEN /\ pc' = "next_event"
            /\ trace' = [trace EXCEPT !.skipped = @ + 1]
            /\ UNCHANGED event
       ELSE /\ pc' = "collect"
            /\ event' = Head(commits_stream)
            /\ UNCHANGED trace
    /\ UNCHANGED << ledger_vars, static_vars, panicked, blocks_done, last, batch_vars,
                    header_stream, headers, block_i, fetched_proof, send_vars,
                    rollup_contract, output_stream >>
    /\ UNCHANGED api_vars

\* commits_stream.next() yields None: the loop ends and run_executor returns
CommitsStreamClosed ==
    /\ ~panicked
    /\ pc = "next_event"
    /\ commits_stream = << >>
    /\ pc' = "done"
    /\ UNCHANGED << ledger_vars, static_vars, panicked, blocks_done, last, batch_vars,
                    commits_stream, header_stream, loop_vars, send_vars,
                    rollup_contract, output_stream, trace >>
    /\ UNCHANGED api_vars

\* header_stream.by_ref().take(num_blocks)...collect(): the next num_blocks
\* headers, or fewer when the stream closes first; an error item panics.
\* Then `proofs = vec![]`.
CollectHeaders ==
    /\ ~panicked
    /\ pc = "collect"
    /\ \E taken \in 0..event.num_blocks, failed \in BOOLEAN :
          /\ header_stream.closed => (taken = 0 /\ ~failed)
          /\ failed => (taken = 0 /\ event.num_blocks > 0)
          /\ IF failed
             THEN /\ panicked' = TRUE
                  /\ trace' = [trace EXCEPT !.fault = Some("header item")]
                  /\ UNCHANGED << pc, header_stream, headers, block_i, batch_vars >>
             ELSE /\ headers' = [j \in 1..taken |-> Header(header_stream.next + j - 1)]
                  /\ header_stream' =
                        [next |-> header_stream.next + taken,
                         closed |-> header_stream.closed \/ taken < event.num_blocks]
                  /\ block_i' = 0
                  /\ proofs' = << >>
                  /\ batch_result' = [kind |-> "None"]
                  /\ pc' = IF taken = 0 THEN "generate" ELSE "check"
                  /\ trace' = [trace EXCEPT !.taken =
                                  Append(@, [event |-> event,
                                             heights |-> [j \in 1..taken |->
                                                            header_stream.next + j - 1]])]
                  /\ UNCHANGED panicked
    /\ UNCHANGED << ledger_vars, static_vars, blocks_done, last, commits_stream, event,
                    fetched_proof, send_vars, rollup_contract, output_stream >>
    /\ UNCHANGED api_vars

\* The commitment check as it would be if a difference were only logged.
CheckCommitment_continues ==
    /\ ~panicked
    /\ pc = "check"
    /\ \E read \in BOOLEAN :
          LET header == headers[block_i + 1]
              commitment == hotshot_commitments(event.first_block_number + block_i)
              block_commitment == u256_to_commitment(commitment)
          IN IF ~read
             THEN /\ panicked' = TRUE
                  /\ trace' = [trace EXCEPT !.fault = Some("commitment read")]
                  /\ UNCHANGED pc
             ELSE /\ pc' = "fetch"
                  /\ UNCHANGED panicked
                  /\ IF Header_commit(header) # block_commitment
                     THEN trace' = [trace EXCEPT !.mismatch =
                                       Some(event.first_block_number + block_i)]
                     ELSE UNCHANGED trace
    /\ UNCHANGED << ledger_vars, static_vars, blocks_done, last, batch_vars, commits_stream,
                    header_stream, loop_vars, send_vars, rollup_contract, output_stream >>
    /\ UNCHANGED api_vars

\* hotshot_contract.commitments(first_block + i) is read (a failed read
\* panics) and compared with header.commit(); a difference panics.
CheckCommitment ==
    /\ ~panicked
    /\ pc = "check"
    /\ \E read \in BOOLEAN :
          LET header == headers[block_i + 1]
              commitment == hotshot_commitments(event.first_block_number + block_i)
              block_commitment == u256_to_commitment(commitment)
          IN IF ~read
             THEN /\ panicked' = TRUE
                  /\ trace' = [trace EXCEPT !.fault = Some("commitment read")]
                  /\ UNCHANGED pc
             ELSE IF Header_commit(header) # block_commitment
             THEN /\ panicked' = TRUE
                  /\ trace' = [trace EXCEPT
                                  !.mismatch = Some(event.first_block_number + block_i),
                                  !.fault = Some("commitment mismatch")]
                  /\ UNCHANGED pc
             ELSE /\ pc' = "fetch"
                  /\ UNCHANGED << panicked, trace >>
    /\ UNCHANGED << ledger_vars, static_vars, blocks_done, last, batch_vars, commits_stream,
                    header_stream, loop_vars, send_vars, rollup_contract, output_stream >>
    /\ UNCHANGED api_vars

\* The namespace proof of block first_block + i is fetched from the query
\* service (a failed query panics); what it returns may or may not verify
\* against the block's root and the rollup's namespace.
FetchNamespaceProof ==
    /\ ~panicked
    /\ pc = "fetch"
    /\ \/ /\ \E root \in Roots, ns \in {VmId, OtherVmId} :
                fetched_proof' =
                    Some(NamespaceProof(root, ns,
                                        ChainLeaves(event.first_block_number + block_i)))
          /\ pc' = "execute"
          /\ trace' = [trace EXCEPT !.fetched =
                          Append(@, event.first_block_number + block_i)]
          /\ UNCHANGED panicked
       \/ /\ panicked' = TRUE
          /\ trace' = [trace EXCEPT !.fault = Some("namespace query")]
          /\ UNCHANGED << pc, fetched_proof >>
    /\ UNCHANGED << ledger_vars, static_vars, blocks_done, last, batch_vars,
                    commits_stream, header_stream, event, headers, block_i, send_vars,
                    rollup_contract, output_stream >>
    /\ UNCHANGED api_vars

\* Under the write lock: execute_block on the ledger, its Proof pushed, and
\* (block index, state) sent to the output stream if there is one.
ExecuteLocked ==
    /\ ~panicked
    /\ pc = "execute"
    /\ LET header == headers[block_i + 1]
           index == event.first_block_number + block_i
           r == execute_block(TheState, header.transactions_root, fetched_proof[1],
                              overflow_checks)
           returned == r.result.kind = "Proof"
           refused == /\ \A k \in DOMAIN r.results : r.results[k].kind # "Panic"
                      /\ ~verify(fetched_proof[1], header.transactions_root, VmId)
       IN /\ accounts' = r.state.accounts
          /\ nmt_comm' = r.state.nmt_comm
          /\ prev_state_commitment' = r.state.prev_state_commitment
          /\ last' = [op |-> "execute_block", nmt_root |-> header.transactions_root,
                      namespace_proof |-> fetched_proof[1],
                      results |-> r.results, result |-> r.result]
          /\ panicked' = ~returned
          /\ proofs' = IF returned THEN Append(proofs, r.result) ELSE proofs
          /\ output_stream' =
                IF returned /\ output_stream # None
                THEN Some(send_async(output_stream[1],
                                published(event.first_block_number, block_i, r.state)))
                ELSE output_stream
          /\ block_i' = IF returned THEN block_i + 1 ELSE block_i
          /\ pc' = IF ~returned THEN pc
                   ELSE IF block_i + 1 = Len(headers) THEN "generate" ELSE "check"
          /\ trace' =
                IF returned
                THEN [trace EXCEPT !.executed =
                         Append(@, [event |-> event, index |-> index,
                                    height |-> header.height,
                                    state |-> commit(r.state)])]
                ELSE IF refused
                THEN [trace EXCEPT !.unverified = Some(index),
                                   !.fault = Some("namespace proof")]
                ELSE [trace EXCEPT !.fault = Some("overflow")]
    /\ blocks_done' = blocks_done + 1
    /\ fetched_proof' = None
    /\ UNCHANGED << static_vars, batch_result, commits_stream, header_stream, event,
                    headers, send_vars, rollup_contract >>
    /\ UNCHANGED api_vars

\* BatchProof::generate(&proofs).expect(..), the ledger's commitment read,
\* and the verify_blocks call built.
Generate ==
    /\ ~panicked
    /\ pc = "generate"
    /\ lock.writer = "none"
    /\ LET r == BatchProof_generate(proofs)
       IN /\ batch_result' = r
          /\ IF r.kind # "BatchProof"
             THEN /\ panicked' = TRUE
                  /\ trace' = [trace EXCEPT !.fault =
                                  Some(IF r.kind = "OutOfOrder" THEN "out of order"
                                       ELSE "empty batch")]
                  /\ UNCHANGED << pc, send_vars >>
             ELSE /\ call' = verify_blocks(event.num_blocks,
                                           commitment_to_u256(commit(TheState)),
                                           bindings_BatchProof_from(r))
                  /\ attempts' = 0
                  /\ slept' = 0
                  /\ pc' = "send"
                  /\ UNCHANGED << panicked, trace >>
    /\ UNCHANGED << ledger_vars, static_vars, blocks_done, last, proofs, commits_stream,
                    header_stream, loop_vars, rollup_contract, output_stream >>
    /\ UNCHANGED api_vars

\* contract_send(&call) returns Ok: the rollup contract has taken the update
SubmitAccepted ==
    /\ ~panicked
    /\ pc = "send"
    /\ LET height == rollup_contract.block_height + call.count
       IN rollup_contract' =
             [state_commitment |-> call.next_state_commitment,
              block_height |-> height,
              updates |-> Append(rollup_contract.updates,
                                 [block_height |-> height,
                                  state_commitment |-> call.next_state_commitment])]
    /\ trace' = [trace EXCEPT !.sent =
                    Append(@, [event |-> event, call |-> call, accepted |-> TRUE])]
    /\ pc' = "next_event"
    /\ UNCHANGED << ledger_vars, static_vars, panicked, blocks_done, last, batch_vars,
                    commits_stream, header_stream, loop_vars, send_vars, output_stream >>
    /\ UNCHANGED api_vars

\* contract_send(&call) returns Err as it would be handled if the executor
\* logged the failure and went on to the next event.
SubmitFailed_gives_up ==
    /\ ~panicked
    /\ pc = "send"
    /\ attempts < MaxRetries
    /\ attempts' = attempts + 1
    /\ trace' = [trace EXCEPT !.sent =
                    Append(@, [event |-> event, call |-> call, accepted |-> FALSE])]
    /\ pc' = "next_event"
    /\ UNCHANGED << ledger_vars, static_vars, panicked, blocks_done, last, batch_vars,
                    commits_stream, header_stream, loop_vars, call, slept,
                    rollup_contract, output_stream >>
    /\ UNCHANGED api_vars

\* contract_send(&call) returns Err as it would be handled if a failed
\* submission were fatal.
SubmitFailed_is_fatal ==
    /\ ~panicked
    /\ pc = "send"
    /\ attempts < MaxRetries
    /\ attempts' = attempts + 1
    /\ trace' = [trace EXCEPT !.sent =
                    Append(@, [event |-> event, call |-> call, accepted |-> FALSE]),
                              !.fault = Some("submission")]
    /\ panicked' = TRUE
    /\ UNCHANGED << ledger_vars, static_vars, blocks_done, last, batch_vars,
                    commits_stream, header_stream, loop_vars, call, slept,
                    rollup_contract, output_stream, pc >>
    /\ UNCHANGED api_vars

\* contract_send(&call) returns Err: a warning is logged and the executor
\* goes to sleep.
SubmitFailed ==
    /\ ~panicked
    /\ pc = "send"
    /\ attempts < MaxRetries
    /\ attempts' = attempts + 1
    /\ trace' = [trace EXCEPT !.sent =
                    Append(@, [event |-> event, call |-> call, accepted |-> FALSE])]
    /\ pc' = "sleep"
    /\ UNCHANGED << ledger_vars, static_vars, panicked, blocks_done, last, batch_vars,
                    commits_stream, header_stream, loop_vars, call, slept,
                    rollup_contract, output_stream >>
    /\ UNCHANGED api_vars

\* sleep(Duration::from_secs(1)), then the same call is sent again
Sleep ==
    /\ ~panicked
    /\ pc = "sleep"
    /\ slept' = slept + RetryDelay
    /\ pc' = "send"
    /\ UNCHANGED << ledger_vars, static_vars, panicked, blocks_done, last, batch_vars,
                    commits_stream, header_stream, loop_vars, call, attempts,
                    rollup_contract, output_stream, trace >>
    /\ UNCHANGED api_vars

NextExec ==
    \/ NextEvent
    \/ CommitsStreamClosed
    \/ CollectHeaders
    \/ CheckCommitment
    \/ FetchNamespaceProof
    \/ ExecuteLocked
    \/ Generate
    \/ SubmitAccepted
    \/ SubmitFailed
    \/ Sleep

SpecExec == InitExec /\ [][NextExec]_vars

\* run_executor started as main starts it, without an output stream, where
\* the event stream delivers every event and the HotShot contract records the
\* consensus headers
InitExecFair ==
    /\ InitExec
    /\ output_stream = None
    /\ hotshot_contract.differs = None
    /\ \A n \in DOMAIN commits_stream : commits_stream[n].kind = "NewBlocks"

\* The executor task is scheduled as long as it can take a step
SpecExecFair == InitExecFair /\ [][NextExec]_vars /\ WF_vars(NextExec)

\* ------------------------------------------- the executor beside the API
\* The RwLock: write() is granted when nothing holds the lock, read() when
\* no writer holds it.
CanWrite == lock.writer = "none" /\ lock.readers = {}

CanRead == lock.writer = "none"

\* The step of the executor after the block at index block_i
AfterBlock == IF block_i + 1 = Len(headers) THEN "generate" ELSE "check"

\* The write lock as it would be if it were granted while requests read.
WriteLock_beside_readers ==
    /\ ~panicked
    /\ pc = "execute"
    /\ lock.writer = "none"
    /\ lock' = [lock EXCEPT !.writer = "executor"]
    /\ block_run' = Some([state_commitment |-> commit(TheState),
                          leaves |-> get_namespace_leaves(fetched_proof[1]),
                          results |-> << >>])
    /\ pc' = "apply"
    /\ UNCHANGED << ledger_vars, static_vars, panicked, blocks_done, last, batch_vars,
                    commits_stream, header_stream, loop_vars, send_vars, rollup_contract,
                    output_stream, trace, api, response >>

\* `state.write().await`, and the entry of execute_block: the ledger's
\* commitment is taken and the leaves are read from the namespace proof.
WriteLock ==
    /\ ~panicked
    /\ pc = "execute"
    /\ CanWrite
    /\ lock' = [lock EXCEPT !.writer = "executor"]
    /\ block_run' = Some([state_commitment |-> commit(TheState),
                          leaves |-> get_namespace_leaves(fetched_proof[1]),
                          results |-> << >>])
    /\ pc' = "apply"
    /\ UNCHANGED << ledger_vars, static_vars, panicked, blocks_done, last, batch_vars,
                    commits_stream, header_stream, loop_vars, send_vars, rollup_contract,
                    output_stream, trace, api, response >>

\* One turn of the loop of execute_block: the next leaf is decoded and
\* applied; an error is logged; an overflow panic unwinds and drops the guard.
ApplyLeaf ==
    /\ ~panicked
    /\ pc = "apply"
    /\ block_run[1].leaves # << >>
    /\ LET txn == Head(block_run[1].leaves)
           rollup_txn == as_vm(txn, VmId)
           res == IF rollup_txn = None
                  THEN [accounts |-> accounts, result |-> [kind |-> "Malformed"]]
                  ELSE apply_transaction(accounts, rollup_txn[1], overflow_checks)
       IN /\ accounts' = res.accounts
          /\ block_run' = Some([block_run[1] EXCEPT !.leaves = Tail(@),
                                                    !.results = Append(@, res.result)])
          /\ panicked' = (res.result.kind = "Panic")
          /\ IF res.result.kind = "Panic"
             THEN /\ lock' = [lock EXCEPT !.writer = "none"]
                  /\ trace' = [trace EXCEPT !.fault = Some("overflow")]
             ELSE UNCHANGED << lock, trace >>
    /\ UNCHANGED << nmt_comm, prev_state_commitment, static_vars, blocks_done, last,
                    batch_vars, pc, commits_stream, header_stream, loop_vars, send_vars,
                    rollup_contract, output_stream, api, response >>

\* The pointer update as it would be if prev_state_commitment were taken
\* after the leaves were applied.
SetPointers_late_commitment ==
    /\ ~panicked
    /\ pc = "apply"
    /\ block_run[1].leaves = << >>
    /\ nmt_comm' = Some(NMTRoot_commit(headers[block_i + 1].transactions_root))
    /\ prev_state_commitment' = Some(commit(TheState))
    /\ pc' = "prove"
    /\ UNCHANGED << accounts, static_vars, panicked, blocks_done, last, batch_vars,
                    commits_stream, header_stream, loop_vars, send_vars, rollup_contract,
                    output_stream, trace, api_vars >>

\* The leaves are done: execute_block sets nmt_comm and prev_state_commitment
SetPointers ==
    /\ ~panicked
    /\ pc = "apply"
    /\ block_run[1].leaves = << >>
    /\ nmt_comm' = Some(NMTRoot_commit(headers[block_i + 1].transactions_root))
    /\ prev_state_commitment' = Some(block_run[1].state_commitment)
    /\ pc' = "prove"
    /\ UNCHANGED << accounts, static_vars, panicked, blocks_done, last, batch_vars,
                    commits_stream, header_stream, loop_vars, send_vars, rollup_contract,
                    output_stream, trace, api_vars >>

\* Proof::generate at the end of execute_block (a namespace proof that does
\* not verify panics, which drops the guard), and the Proof pushed.  With no
\* output stream the guard is dropped at the end of the loop body; with one,
\* the executor goes on to publish under the guard.
ProveBlock ==
    /\ ~panicked
    /\ pc = "prove"
    /\ LET header == headers[block_i + 1]
           index == event.first_block_number + block_i
           r == Proof_generate(header.transactions_root, commit(TheState),
                               prev_state_commitment[1], fetched_proof[1], VmId)
       IN /\ last' = [op |-> "execute_block", nmt_root |-> header.transactions_root,
                      namespace_proof |-> fetched_proof[1],
                      results |-> block_run[1].results, result |-> r]
          /\ IF r.kind # "Proof"
             THEN /\ panicked' = TRUE
                  /\ lock' = [lock EXCEPT !.writer = "none"]
                  /\ trace' = [trace EXCEPT !.unverified = Some(index),
                                            !.fault = Some("namespace proof")]
                  /\ UNCHANGED << proofs, pc, block_i, fetched_proof, block_run >>
             ELSE /\ proofs' = Append(proofs, r)
                  /\ trace' = [trace EXCEPT !.executed =
                                  Append(@, [event |-> event, index |-> index,
                                             height |-> header.height,
                                             state |-> commit(TheState)])]
                  /\ fetched_proof' = None
                  /\ block_run' = None
                  /\ IF output_stream = None
                     THEN /\ lock' = [lock EXCEPT !.writer = "none"]
                          /\ block_i' = block_i + 1
                          /\ pc' = AfterBlock
                     ELSE /\ pc' = "publish"
                          /\ UNCHANGED << lock, block_i >>
                  /\ UNCHANGED panicked
    /\ blocks_done' = blocks_done + 1
    /\ UNCHANGED << ledger_vars, static_vars, batch_result, commits_stream, header_stream,
                    event, headers, send_vars, rollup_contract, output_stream, api,
                    response >>

\* The publish as it would be over a channel that holds one item and makes
\* the sender wait while it is full.
Publish_bounded ==
    /\ ~panicked
    /\ pc = "publish"
    /\ output_stream[1].queued = << >>
    /\ output_stream' =
          Some(send_async(output_stream[1],
                          published(event.first_block_number, block_i, TheState)))
    /\ lock' = [lock EXCEPT !.writer = "none"]
    /\ block_i' = block_i + 1
    /\ pc' = AfterBlock
    /\ UNCHANGED << ledger_vars, static_vars, panicked, blocks_done, last, batch_vars,
                    commits_stream, header_stream, event, headers, fetched_proof,
                    send_vars, rollup_contract, trace, api, response, block_run >>

\* stream.send_async((index, state.clone())).await.ok(): whatever it returns
\* is dropped; then the loop body ends and the guard is dropped.
Publish ==
    /\ ~panicked
    /\ pc = "publish"
    /\ output_stream' =
          Some(send_async(output_stream[1],
                          published(event.first_block_number, block_i, TheState)))
    /\ lock' = [lock EXCEPT !.writer = "none"]
    /\ block_i' = block_i + 1
    /\ pc' = AfterBlock
    /\ UNCHANGED << ledger_vars, static_vars, panicked, blocks_done, last, batch_vars,
                    commits_stream, header_stream, event, headers, fetched_proof,
                    send_vars, rollup_contract, trace, api, response, block_run >>

\* A GET handler is entered: the framework takes the read lock for it
ReadLock ==
    /\ ~panicked
    /\ \E h \in Handlers :
          /\ api[h] = "idle"
          /\ CanRead
          /\ api' = [api EXCEPT ![h] = "reading"]
          /\ lock' = [lock EXCEPT !.readers = @ \cup {h}]
    /\ UNCHANGED << ledger_vars, static_vars, panicked, blocks_done, last, batch_vars,
                    pc, commits_stream, header_stream, loop_vars, send_vars,
                    rollup_contract, output_stream, trace, response, block_run >>

\* The balance or nonce handler: the address parameter is parsed, the value
\* read from the ledger and returned; the read lock is released.
ReadDone ==
    /\ ~panicked
    /\ \E h \in Handlers :
          /\ api[h] = "reading"
          /\ api' = [api EXCEPT ![h] = "idle"]
          /\ lock' = [lock EXCEPT !.readers = @ \ {h}]
    /\ \E route \in {"balance", "nonce"}, address \in QueriedAddresses :
          response' =
             IF address = MalformedAddress
             THEN [route |-> route, address |-> address, kind |-> "BadRequest"]
             ELSE [route |-> route, address |-> address, kind |-> "Ok",
                   value |-> IF route = "balance" THEN get_balance(accounts, address)
                             ELSE get_nonce(accounts, address)]
    /\ UNCHANGED << ledger_vars, static_vars, panicked, blocks_done, last, batch_vars,
                    pc, commits_stream, header_stream, loop_vars, send_vars,
                    rollup_contract, output_stream, trace, block_run >>

\* The submit handler is entered: a POST handler is handed the state as
\* `&mut State`, which the framework takes the write lock for
SubmitLock ==
    /\ ~panicked
    /\ \E h \in Handlers :
          /\ api[h] = "idle"
          /\ CanWrite
          /\ api' = [api EXCEPT ![h] = "submitting"]
          /\ lock' = [lock EXCEPT !.writer = "submit"]
    /\ UNCHANGED << ledger_vars, static_vars, panicked, blocks_done, last, batch_vars,
                    pc, commits_stream, header_stream, loop_vars, send_vars,
                    rollup_contract, output_stream, trace, response, block_run >>

\* The submit handler: the body is decoded and submit_transaction posts the
\* transaction to the sequencer; either may fail.  Then the lock is released.
SubmitForward ==
    /\ ~panicked
    /\ \E h \in Handlers :
          /\ api[h] = "submitting"
          /\ api' = [api EXCEPT ![h] = "idle"]
    /\ lock' = [lock EXCEPT !.writer = "none"]
    /\ \E outcome \in {"Ok", "BadRequest", "ServerError"} :
          response' = [route |-> "submit", kind |-> outcome]
    /\ UNCHANGED << ledger_vars, static_vars, panicked, blocks_done, last, batch_vars,
                    pc, commits_stream, header_stream, loop_vars, send_vars,
                    rollup_contract, output_stream, trace, block_run >>

\* Largest number of events the settlement event stream delivers while the
\* API is served.
MaxApiEvents == 1

\* run_executor and the API are started together on a fresh ledger; the
\* event stream delivers every event and the HotShot contract records the
\* consensus headers
InitApi ==
    /\ InitExec
    /\ hotshot_contract.differs = None
    /\ \A n \in DOMAIN commits_stream : commits_stream[n].kind = "NewBlocks"
    /\ Len(commits_stream) <= MaxApiEvents

NextApi ==
    \/ NextEvent
    \/ CommitsStreamClosed
    \/ CollectHeaders
    \/ CheckCommitment
    \/ FetchNamespaceProof
    \/ WriteLock
    \/ ApplyLeaf
    \/ SetPointers
    \/ ProveBlock
    \/ Publish
    \/ Generate
    \/ SubmitAccepted
    \/ SubmitFailed
    \/ Sleep
    \/ ReadLock
    \/ ReadDone
    \/ SubmitLock
    \/ SubmitForward

SpecApi == InitApi /\ [][NextApi]_vars

\* ---------------------------------------------- several rollups, one chain
\* A transaction of another rollup: a leaf in the namespace of OtherVmId
OtherLeaf(stx) == [vm |-> OtherVmId, payload |-> Some(stx)]

\* The leaves a block may hold for this rollup, and for the other rollup
OwnLeaves ==
    {<< >>, << Leaf(NamespaceTx(1)) >>,
     << MalformedLeaf, Leaf(NamespaceTx(1)), Leaf(NamespaceTx(2)) >>}

OtherLeaves == {<< >>, << OtherLeaf(NamespaceTx(1)) >>}

\* On the second chain the other rollup's transaction may also be a different one
TwinOtherLeaves == OtherLeaves \cup {<< OtherLeaf(NamespaceTx(2)) >>}

\* header.transactions_root: the root of the block's namespaced Merkle tree,
\* a hash over the leaves of every namespace
transactions_root(block) == << "NMT", block >>

\* GET block/{height}/namespace/{vm_id}: the proof of the leaves the block
\* holds in that namespace
namespace_proof_query(block, vm) ==
    NamespaceProof(transactions_root(block), vm, SelectSeq(block, LAMBDA leaf : leaf.vm = vm))

\* The blocks this rollup executes before the model stops
MaxRollupBlocks == 2

\* The second ledger as a State
TwinState == StateOf(twin.accounts, twin.nmt_comm, twin.prev_state_commitment)

\* What the actions of this section leave alone
multi_frame == << genesis, overflow_checks, times_applied, batch_result, tree, pc,
                  commits_stream, header_stream, hotshot_contract, loop_vars, attempts,
                  slept, rollup_contract, output_stream, trace, api_vars >>

\* The rollup with VmId runs on two consensus chains whose blocks hold the
\* same leaves in its namespace; `twin` is its ledger, proofs and call on the
\* second chain, where besides the executor of the other rollup may be held
\* up in its retry loop (stalled).
InitMulti ==
    /\ accounts = TestGenesis.accounts
    /\ nmt_comm = TestGenesis.nmt_comm
    /\ prev_state_commitment = TestGenesis.prev_state_commitment
    /\ genesis = TestGenesis.accounts
    /\ overflow_checks \in BOOLEAN
    /\ panicked = FALSE
    /\ blocks_done = 0
    /\ last = [op |-> "from_initial_balances"]
    /\ times_applied = << >>
    /\ BatchIdle
    /\ tree = BTreeMap_new
    /\ twin = [accounts |-> TestGenesis.accounts,
               nmt_comm |-> TestGenesis.nmt_comm,
               prev_state_commitment |-> TestGenesis.prev_state_commitment,
               proofs |-> << >>,
               call |-> [kind |-> "None"],
               same_roots |-> TRUE,
               stalled |-> FALSE]
    /\ ExecIdle

\* One turn of the block loop on either chain: the namespace proof is
\* queried for VmId and the block executed on the ledger of that chain.
\* The blocks hold `own` in the namespace of VmId on both chains, and what
\* they hold for the other rollup is free on each.
ExecuteOnBoth ==
    /\ ~panicked
    /\ blocks_done < MaxRollupBlocks
    /\ \E own \in OwnLeaves, others \in OtherLeaves, twin_others \in TwinOtherLeaves :
          LET block == own \o others
              twin_block == own \o twin_others
              r == execute_block(TheState, transactions_root(block),
                                 namespace_proof_query(block, VmId), overflow_checks)
              t == execute_block(TwinState, transactions_root(twin_block),
                                 namespace_proof_query(twin_block, VmId), overflow_checks)
          IN /\ accounts' = r.state.accounts
             /\ nmt_comm' = r.state.nmt_comm
             /\ prev_state_commitment' = r.state.prev_state_commitment
             /\ panicked' = (r.result.kind = "Panic" \/ t.result.kind = "Panic")
             /\ proofs' = IF r.result.kind = "Panic" THEN proofs
                          ELSE Append(proofs, r.result)
             /\ twin' = [twin EXCEPT
                            !.accounts = t.state.accounts,
                            !.nmt_comm = t.state.nmt_comm,
                            !.prev_state_commitment = t.state.prev_state_commitment,
                            !.proofs = IF t.result.kind = "Panic" THEN @
                                       ELSE Append(@, t.result),
                            !.same_roots = @ /\ transactions_root(block)
                                                  = transactions_root(twin_block)]
             /\ last' = [op |-> "execute_block", block |-> block,
                         twin_block |-> twin_block,
                         results |-> r.results, twin_results |-> t.results]
    /\ blocks_done' = blocks_done + 1
    /\ UNCHANGED << call, multi_frame >>

\* The end of a range on either chain: the proofs are aggregated and the
\* verify_blocks call is built from them and the ledger's commitment.
SubmitOnBoth ==
    /\ ~panicked
    /\ proofs # << >>
    /\ call' = verify_blocks(Len(proofs), commitment_to_u256(commit(TheState)),
                             bindings_BatchProof_from(BatchProof_generate(proofs)))
    /\ twin' = [twin EXCEPT
                   !.call = verify_blocks(Len(twin.proofs),
                                          commitment_to_u256(commit(TwinState)),
                                          bindings_BatchProof_from(
                                              BatchProof_generate(twin.proofs))),
                   !.proofs = << >>]
    /\ proofs' = << >>
    /\ last' = [op |-> "verify_blocks"]
    /\ UNCHANGED << ledger_vars, panicked, blocks_done, multi_frame >>

\* On the second chain the other rollup's executor enters its retry loop
\* with a call that settlement does not accept
OtherStalls ==
    /\ ~twin.stalled
    /\ twin' = [twin EXCEPT !.stalled = TRUE]
    /\ UNCHANGED << ledger_vars, panicked, blocks_done, last, proofs, call, multi_frame >>

\* Settlement accepts the call of the other rollup's executor
OtherAccepted ==
    /\ twin.stalled
    /\ twin' = [twin EXCEPT !.stalled = FALSE]
    /\ UNCHANGED << ledger_vars, panicked, blocks_done, last, proofs, call, multi_frame >>

NextMulti == ExecuteOnBoth \/ SubmitOnBoth \/ OtherStalls \/ OtherAccepted

SpecMulti == InitMulti /\ [][NextMulti]_vars

\* ------------------------------------------------------------------ claims
\* The sum of all account balances of a ledger
RECURSIVE SumOver(_, _)
SumOver(accts, S) ==
    IF S = {} THEN 0
    ELSE LET a == CHOOSE x \in S : TRUE
         IN accts[a].balance + SumOver(accts, S \ {a})

TotalBalance(accts) == SumOver(accts, DOMAIN accts)

\* This step is a call of apply_transaction
AppliedStep == last' # last /\ last'.op = "apply_transaction"

\* The address recovered from a well-signed transaction
Signer(stx) == recover(stx).address

\* C1: after any sequence of apply_transaction calls, each succeeding or
\* failing, the sum of all balances equals the sum of the genesis balances.
C1_Conservation ==
    ~panicked => TotalBalance(accounts) = TotalBalance(genesis)

\* C2: whenever apply_transaction returns an error, every account's balance
\* and nonce, the set of accounts and both chain pointers are as before.
C2_ErrorLeavesLedger ==
    [][(AppliedStep /\ IsErr(last'.result)) =>
          /\ accounts' = accounts
          /\ nmt_comm' = nmt_comm
          /\ prev_state_commitment' = prev_state_commitment]_vars

\* C2 witness: a call that failed on the nonce of a sender that has an account
C2_Witness ==
    /\ last.op = "apply_transaction"
    /\ last.result.kind = "InvalidNonce"
    /\ last.result.address \in DOMAIN accounts

\* What C3 requires of a transaction for it to succeed on a ledger
C3_Valid(accts, stx) ==
    /\ recover(stx).ok
    /\ Signer(stx) \in DOMAIN accts
    /\ stx.transaction.nonce = accts[Signer(stx)].nonce + 1
    /\ stx.transaction.amount <= accts[Signer(stx)].balance

\* C3: apply_transaction succeeds iff the recovered signer has an account, the
\* nonce is the account's nonce + 1 and the amount is at most its balance; a
\* wrong nonce yields InvalidNonce{sender, nonce + 1, tx.nonce}, an excessive
\* amount InsufficientBalance{sender}.
C3_SucceedsIff ==
    [][AppliedStep =>
          LET stx == last'.tx
              known == recover(stx).ok /\ Signer(stx) \in DOMAIN accounts
              nonce_ok == stx.transaction.nonce = accounts[Signer(stx)].nonce + 1
          IN /\ (last'.result = Ok) <=> C3_Valid(accounts, stx)
             /\ (known /\ ~nonce_ok) =>
                    last'.result = InvalidNonce(Signer(stx),
                                                accounts[Signer(stx)].nonce + 1,
                                                stx.transaction.nonce)
             /\ (known /\ nonce_ok /\ stx.transaction.amount > accounts[Signer(stx)].balance) =>
                    last'.result = InsufficientBalance(Signer(stx))]_vars

\* The accounts C4 requires after a successful transfer
C4_Transferred(accts, stx) ==
    LET sender == Signer(stx)
        destination == stx.transaction.destination
        amount == stx.transaction.amount
    IN [a \in (DOMAIN accts) \cup {destination} |->
           LET before == IF a \in DOMAIN accts THEN accts[a] ELSE [balance |-> 0, nonce |-> 0]
           IN [balance |-> before.balance
                           - (IF a = sender THEN amount ELSE 0)
                           + (IF a = destination THEN amount ELSE 0),
               nonce |-> IF a = sender THEN stx.transaction.nonce ELSE before.nonce]]

\* C4: a successful apply_transaction debits the amount from the signer, sets
\* the signer's nonce to tx.nonce, credits the amount to the destination
\* (created with nonce 0 if absent) and changes nothing else; no call leaves
\* only the debit or only the credit behind.
C4_SuccessEffect ==
    [][AppliedStep =>
          /\ (last'.result = Ok) =>
                /\ accounts' = C4_Transferred(accounts, last'.tx)
                /\ nmt_comm' = nmt_comm
                /\ prev_state_commitment' = prev_state_commitment
          /\ (last'.result # Ok) => accounts' = accounts]_vars

\* Scenario A of the specification: genesis and transaction
ScenarioA_genesis == from_initial_balances(<< <<"alice", 9999>> >>).accounts
ScenarioA_tx ==
    SignedTransaction_new([amount |-> 110, destination |-> "bob", nonce |-> 1], "alice")

\* The genesis of tests::smoke_test
Smoke_genesis == from_initial_balances(<< <<"alice", 100>>, <<"bob", 100>> >>).accounts

\* C5 as stated: on genesis {Alice: 9999}, Alice's {110, Bob, nonce 1} fails
\* with InsufficientBalance{Alice}, leaving her balance 9999 and nonce 0.
C5_ScenarioA_AsStated ==
    [][(AppliedStep /\ accounts = ScenarioA_genesis /\ last'.tx = ScenarioA_tx) =>
          /\ last'.result = InsufficientBalance("alice")
          /\ accounts'["alice"] = [balance |-> 9999, nonce |-> 0]]_vars

\* C5 amended: on genesis {Alice: 100, Bob: 100}, Alice's {110, Bob, nonce 1}
\* fails with InsufficientBalance{Alice}, leaving her balance 100 and nonce 0.
C5_ScenarioA_Smoke ==
    [][(AppliedStep /\ accounts = Smoke_genesis /\ last'.tx = ScenarioA_tx) =>
          /\ last'.result = InsufficientBalance("alice")
          /\ accounts'["alice"] = [balance |-> 100, nonce |-> 0]]_vars

\* C5 witness: the overspend was tried on the smoke-test genesis
C5_Witness ==
    /\ genesis = Smoke_genesis
    /\ accounts = Smoke_genesis
    /\ last.op = "apply_transaction"
    /\ last.tx = ScenarioA_tx
    /\ last.result.kind = "InsufficientBalance"

\* C8: no balance is ever negative (nor above the unsigned range): the debit
\* is only performed when the amount is at most the sender's balance.
C8_NonNegative ==
    \A a \in DOMAIN accounts : accounts[a].balance >= 0 /\ accounts[a].balance <= U64Max

\* C8 witness: a successful transfer that spent the sender's whole balance
C8_Witness ==
    /\ last.op = "apply_transaction"
    /\ last.result.kind = "Ok"
    /\ last.tx.transaction.amount > 0
    /\ accounts[Signer(last.tx)].balance = 0

\* Every transaction applied with Ok so far was applied once
AppliedOnce(times) == \A t \in DOMAIN times : times[t] <= 1

\* C6: in any sequence of apply_transaction and execute_block calls a signed
\* transaction is applied successfully at most once, and re-applying the one
\* that just succeeded with nonce n fails with InvalidNonce{sender, n + 1, n}.
C6_ReplayProtection ==
    [][/\ AppliedOnce(times_applied')
       /\ (/\ last.op = "apply_transaction"
           /\ last.result = Ok
           /\ AppliedStep
           /\ last'.tx = last.tx) =>
              last'.result = InvalidNonce(Signer(last.tx),
                                          last.tx.transaction.nonce + 1,
                                          last.tx.transaction.nonce)]_vars

\* C6 witness: a transaction was applied once and its replay then refused
C6_Witness ==
    /\ last.op = "apply_transaction"
    /\ last.result.kind = "InvalidNonce"
    /\ last.tx \in DOMAIN times_applied
    /\ times_applied[last.tx] = 1
    /\ last.result.expected = last.tx.transaction.nonce + 1

\* How many leaves of a block were sent by address a and applied with Ok
RECURSIVE SentInBlock(_, _, _)
SentInBlock(leaves, results, a) ==
    IF leaves = << >> \/ results = << >> THEN 0
    ELSE (IF Head(results).kind = "Ok" /\ Signer(Head(leaves).payload[1]) = a
          THEN 1 ELSE 0)
         + SentInBlock(Tail(leaves), Tail(results), a)

\* How many transactions sent by address a this step applied successfully
SentThisStep(a) ==
    IF last' = last THEN 0
    ELSE IF last'.op = "apply_transaction"
    THEN (IF last'.result = Ok /\ Signer(last'.tx) = a THEN 1 ELSE 0)
    ELSE IF last'.op = "execute_block"
    THEN SentInBlock(last'.namespace_proof.leaves, last'.results, a)
    ELSE 0

\* C7: every nonce starts at 0 (genesis accounts and accounts created by a
\* transfer), rises by exactly 1 with each successfully applied transaction
\* sent from the address, and is changed by nothing else.
C7_NonceDiscipline ==
    /\ \A a \in DOMAIN accounts : accounts[a].nonce = 0
    /\ [][\A a \in Addresses :
             /\ get_nonce(accounts', a) = get_nonce(accounts, a) + SentThisStep(a)
             /\ (a \in DOMAIN accounts' /\ a \notin DOMAIN accounts) =>
                    accounts'[a].nonce = 0]_vars

\* The indices k at which proofs[k].new_state differs from proofs[k+1].old_state
Mismatches(ps) == {k \in 0..(Len(ps) - 2) : ps[k + 1].new_state # ps[k + 2].old_state}

Smallest(S) == CHOOSE k \in S : \A j \in S : k <= j

BatchReturned == batch_result.kind # "None"

\* C9: for a non-empty sequence BatchProof::generate succeeds iff every
\* adjacent pair chains; otherwise it returns OutOfOrder at the smallest
\* mismatching index; a single proof always succeeds.
C9_BatchContinuity ==
    (BatchReturned /\ Len(proofs) >= 1) =>
        /\ (batch_result.kind = "BatchProof") <=> (Mismatches(proofs) = {})
        /\ Mismatches(proofs) # {} =>
              /\ batch_result.kind = "OutOfOrder"
              /\ batch_result.position = Smallest(Mismatches(proofs))
        /\ Len(proofs) = 1 => batch_result.kind = "BatchProof"

\* C9 witness: a sequence with two mismatches was refused
C9_Witness ==
    /\ BatchReturned
    /\ batch_result.kind = "OutOfOrder"
    /\ Cardinality(Mismatches(proofs)) >= 2

\* C10: the OutOfOrder error at index k carries proofs[k].new_state as
\* new_state and proofs[k+1].old_state as old_state.
C10_OutOfOrderFields ==
    (BatchReturned /\ batch_result.kind = "OutOfOrder") =>
        /\ batch_result.new_state = proofs[batch_result.position + 1].new_state
        /\ batch_result.old_state = proofs[batch_result.position + 2].old_state

\* C11: on success BatchProof::generate returns first_block = proofs[0].block,
\* last_block = proofs[last].block, old_state = proofs[0].old_state and
\* new_state = proofs[last].new_state, and the call changes neither the
\* proofs it was given nor the ledger.
C11_BatchFields ==
    /\ [](batch_result.kind = "BatchProof" =>
             /\ batch_result.first_block = proofs[1].block
             /\ batch_result.last_block = proofs[Len(proofs)].block
             /\ batch_result.old_state = proofs[1].old_state
             /\ batch_result.new_state = proofs[Len(proofs)].new_state)
    /\ [][batch_result' # batch_result =>
             /\ proofs' = proofs
             /\ accounts' = accounts
             /\ nmt_comm' = nmt_comm
             /\ prev_state_commitment' = prev_state_commitment]_vars

\* C11 witness: a batch of three chained proofs whose first and last proofs
\* differ in block and in both states
C11_Witness ==
    /\ batch_result.kind = "BatchProof"
    /\ Len(proofs) = 3
    /\ proofs[1].block # proofs[3].block
    /\ proofs[1].old_state # proofs[3].old_state
    /\ proofs[1].new_state # proofs[3].new_state

\* This step is a call of execute_block
ExecutedStep == blocks_done' = blocks_done + 1 /\ last'.op = "execute_block"

\* The accounts a block leaves behind when each leaf that decodes and applies
\* with Ok takes effect and every other leaf is skipped
RECURSIVE BestEffort(_, _, _)
BestEffort(accts, leaves, checks) ==
    IF leaves = << >> THEN accts
    ELSE LET payload == Head(leaves).payload
             r == apply_transaction(accts, payload[1], checks)
         IN IF Head(leaves).vm = VmId /\ payload # None /\ r.result = Ok
            THEN BestEffort(r.accounts, Tail(leaves), checks)
            ELSE BestEffort(accts, Tail(leaves), checks)

\* No leaf of the block panicked inside apply_transaction
Completed(results) == \A i \in DOMAIN results : results[i].kind # "Panic"

\* Every leaf of the block failed or was malformed
AllFailed(results) == \A i \in DOMAIN results : results[i].kind \notin {"Ok", "Panic"}

\* C12: execute_block applies the namespace leaves in order, best effort: a
\* failing or undecodable leaf never ends the loop and leaves the ledger as
\* it was, the accounts after the block are the fold of apply_transaction
\* over the leaves with errors ignored, and a block in which every leaf
\* fails still yields a Proof (its namespace proof verifying).
C12_BestEffort ==
    [][ExecutedStep =>
          LET leaves == last'.namespace_proof.leaves
              results == last'.results
          IN /\ Len(results) <= Len(leaves)
             /\ Len(results) < Len(leaves) => results[Len(results)].kind = "Panic"
             /\ Completed(results) =>
                    accounts' = BestEffort(accounts, leaves, overflow_checks)
             /\ AllFailed(results) => accounts' = accounts
             /\ (/\ AllFailed(results)
                 /\ verify(last'.namespace_proof, last'.nmt_root, VmId)) =>
                    last'.result.kind = "Proof"]_vars

\* C12 witness: a block whose first leaf failed and whose second leaf was
\* then applied, and which produced a Proof
C12_Witness ==
    /\ last.op = "execute_block"
    /\ Len(last.results) = 2
    /\ IsErr(last.results[1])
    /\ last.results[2].kind = "Ok"
    /\ last.result.kind = "Proof"

\* The ledger as a State value, before and after the step
LedgerNow == StateOf(accounts, nmt_comm, prev_state_commitment)
LedgerNext == StateOf(accounts', nmt_comm', prev_state_commitment')

\* C13: after execute_block(block_root, proof) on a ledger whose commitment
\* was C_old, nmt_comm is the commitment of block_root, prev_state_commitment
\* is C_old, and the returned Proof has block = commitment of block_root,
\* old_state = C_old and new_state = commit() of the ledger as it is after
\* the transactions and both pointer updates.
C13_BlockPointers ==
    [][(ExecutedStep /\ last'.result.kind = "Proof") =>
          LET C_old == commit(LedgerNow)
          IN /\ nmt_comm' = Some(NMTRoot_commit(last'.nmt_root))
             /\ prev_state_commitment' = Some(C_old)
             /\ last'.result.block = NMTRoot_commit(last'.nmt_root)
             /\ last'.result.old_state = C_old
             /\ last'.result.new_state = commit(LedgerNext)]_vars

\* C13 witness: a block that transferred funds returned its Proof
C13_Witness ==
    /\ last.op = "execute_block"
    /\ last.result.kind = "Proof"
    /\ \E i \in DOMAIN last.results : last.results[i].kind = "Ok"
    /\ accounts # genesis
    /\ nmt_comm # None

\* C14: two ledgers whose accounts maps are equal (built by inserting the
\* same accounts in different orders), whose chain pointers are equal and
\* whose namespace id is the same have equal commitments, and commit() does
\* not change a ledger.
C14_CommitDeterministic ==
    [][(last' # last /\ last'.op = "commit") =>
          /\ (/\ AsMap(tree) = AsMap(twin.tree)
              /\ nmt_comm = twin.nmt_comm
              /\ prev_state_commitment = twin.prev_state_commitment) =>
                 last'.a = last'.b
          /\ UNCHANGED << tree, twin, accounts, nmt_comm, prev_state_commitment >>]_vars

\* C14 witness: two accounts inserted in opposite orders, the same block
\* executed on both ledgers, and the two commitments equal
C14_Witness ==
    /\ last.op = "commit"
    /\ Len(twin.pairs) = 2
    /\ twin.pairs[1][1] # twin.pairs[2][1]
    /\ twin.reordered[1] = twin.pairs[2]
    /\ nmt_comm # None
    /\ nmt_comm = twin.nmt_comm
    /\ last.a = last.b

\* C15: if for block index first_block + k the commitment the settlement
\* ledger records differs from the commitment of the fetched header, the
\* executor stops: it never applies block k or a later block, never fetches
\* their namespace proofs, and never submits an attestation for that range or
\* a later one.
C15_MismatchFatal ==
    /\ [](trace.mismatch # None =>
             /\ panicked
             /\ \A n \in DOMAIN trace.executed : trace.executed[n].index < trace.mismatch[1]
             /\ \A n \in DOMAIN trace.fetched : trace.fetched[n] < trace.mismatch[1]
             /\ \A n \in DOMAIN trace.sent :
                    trace.sent[n].event.first_block_number + trace.sent[n].event.num_blocks
                        <= event.first_block_number)
    /\ [][trace.mismatch # None => UNCHANGED vars]_vars

\* C15 witness: the second block of a range did not match, after the first
\* block of the range had been applied
C15_Witness ==
    /\ trace.mismatch # None
    /\ trace.mismatch[1] = event.first_block_number + 1
    /\ trace.executed # << >>
    /\ trace.executed[Len(trace.executed)].event = event

\* The executor's call of execute_block
ExecutorExecutes == pc = "execute" /\ blocks_done' = blocks_done + 1

\* C16: Proof generation returns a Proof only when the namespace proof
\* verifies against the block root and the rollup's namespace id; when it
\* does not, no Proof is produced for the block, the executor stops, and no
\* attestation covering the block is ever submitted.
C16_VerificationFatal ==
    /\ [][ExecutorExecutes =>
             LET verifies == verify(last'.namespace_proof, last'.nmt_root, VmId)
             IN /\ last'.result.kind = "Proof" => verifies
                /\ ~verifies => (proofs' = proofs /\ panicked')]_vars
    /\ [](trace.unverified # None =>
             /\ panicked
             /\ Len(proofs) = trace.unverified[1] - event.first_block_number
             /\ \A n \in DOMAIN trace.sent :
                    trace.sent[n].event.first_block_number + trace.sent[n].event.num_blocks
                        <= trace.unverified[1])
    /\ [][trace.unverified # None => UNCHANGED vars]_vars

\* C16 witness: the namespace proof of the second block of a range did not
\* verify, after the first block of the range had produced its Proof
C16_Witness ==
    /\ trace.unverified # None
    /\ trace.unverified[1] = event.first_block_number + 1
    /\ Len(proofs) = 1
    /\ last.result.kind = "Panic"

\* The executor is sending a call or sleeping between two attempts
Retrying == pc \in {"send", "sleep"}

\* C17: when a submission fails the executor sends the identical
\* {num_blocks, new_state_commitment, batch_proof} again after a delay of one
\* unit, and goes on until an attempt succeeds; meanwhile it takes no event
\* and no header, applies no block, and neither gives up nor terminates.
\* (At most MaxRetries attempts of a call fail here.)
C17_RetryUntilSuccess ==
    /\ [][Retrying =>
             /\ ~panicked'
             /\ pc' \in {"send", "sleep", "next_event"}
             /\ call' = call
             /\ UNCHANGED << commits_stream, header_stream, event, headers, ledger_vars,
                             blocks_done, output_stream >>
             /\ pc' = "next_event" =>
                    Len(rollup_contract'.updates) = Len(rollup_contract.updates) + 1
             /\ pc = "sleep" => (pc' = "send" /\ slept' = slept + RetryDelay)
             /\ (pc = "send" /\ pc' # "next_event") =>
                    (pc' = "sleep" /\ attempts' = attempts + 1)]_vars
    /\ [](pc = "send" => slept = attempts * RetryDelay)
    /\ [](\A m, n \in DOMAIN trace.sent :
             trace.sent[m].event = trace.sent[n].event =>
                trace.sent[m].call = trace.sent[n].call)
    /\ Retrying ~> (pc = "next_event")

\* C17 witness: a call failed, was sent again after the delay and accepted
C17_Witness ==
    /\ pc = "next_event"
    /\ Len(trace.sent) >= 2
    /\ ~trace.sent[Len(trace.sent) - 1].accepted
    /\ trace.sent[Len(trace.sent)].accepted
    /\ trace.sent[Len(trace.sent)].call = trace.sent[Len(trace.sent) - 1].call
    /\ slept = RetryDelay

\* The block indexes of a range event, in order
RangeOf(ev) == [j \in 1..ev.num_blocks |-> ev.first_block_number + j - 1]

\* The block indexes executed for a range event, in order
ExecutedFor(ev) ==
    LET mine == SelectSeq(trace.executed, LAMBDA e : e.event = ev)
    IN [j \in DOMAIN mine |-> mine[j].index]

\* The attempts that settlement accepted, in order
Accepted == SelectSeq(trace.sent, LAMBDA a : a.accepted)

\* C18: each processed range event {first_block, num_blocks} yields exactly
\* one BatchProof, covering exactly blocks first_block .. first_block +
\* num_blocks - 1; every attempt sends that attestation, exactly one attempt
\* per range is accepted, and the ranges are accepted in the order of their
\* events, none dropped or reordered.
C18_OneBatchPerRange ==
    /\ [][pc = "generate" => (pc' = "send" /\ batch_result'.kind = "BatchProof")]_vars
    /\ [](\A n \in DOMAIN trace.sent :
             /\ ExecutedFor(trace.sent[n].event) = RangeOf(trace.sent[n].event)
             /\ trace.sent[n].call.count = trace.sent[n].event.num_blocks)
    /\ [](\A m, n \in DOMAIN trace.sent :
             trace.sent[m].event = trace.sent[n].event =>
                trace.sent[m].call = trace.sent[n].call)
    /\ [](\A m, n \in DOMAIN Accepted :
             m < n => Accepted[m].event.first_block_number
                         + Accepted[m].event.num_blocks
                      = Accepted[n].event.first_block_number)

\* C19: for every range event the executor processes it pulls exactly
\* num_blocks headers from the header stream and executes exactly num_blocks
\* blocks, and the i-th header it executes is the block at height
\* first_block + i.
C19_Lockstep ==
    /\ \A n \in DOMAIN trace.taken :
          Len(trace.taken[n].heights) = trace.taken[n].event.num_blocks
    /\ \A n \in DOMAIN trace.executed :
          trace.executed[n].height = trace.executed[n].index
    /\ \A n \in DOMAIN trace.sent :
          ExecutedFor(trace.sent[n].event) = RangeOf(trace.sent[n].event)

\* C20: whenever the rollup contract records a state update at block height
\* h, the state commitment it stores is the commitment of the executor's
\* ledger right after it executed block h - 1.
C20_ContractMatchesExecutor ==
    \A u \in DOMAIN rollup_contract.updates :
       \E n \in DOMAIN trace.executed :
          /\ trace.executed[n].index = rollup_contract.updates[u].block_height - 1
          /\ commitment_to_u256(trace.executed[n].state)
                = rollup_contract.updates[u].state_commitment

ErroredEventNext ==
    /\ ~panicked
    /\ pc = "next_event"
    /\ commits_stream # << >>
    /\ Head(commits_stream).kind = "Err"

\* C26: an errored event on the settlement event stream is skipped: the
\* executor pulls no header, applies no block, submits nothing, leaves the
\* ledger unchanged, does not terminate, and waits for the next event.
C26_ErroredEventSkipped ==
    [][ErroredEventNext =>
          /\ pc' = "next_event"
          /\ ~panicked'
          /\ commits_stream' = Tail(commits_stream)
          /\ trace' = [trace EXCEPT !.skipped = @ + 1]
          /\ UNCHANGED << ledger_vars, header_stream, loop_vars, batch_vars, send_vars,
                          rollup_contract, output_stream, blocks_done >>]_vars

\* C26 witness: after an errored event was skipped the executor has taken
\* up the next event
C26_Witness ==
    /\ pc = "collect"
    /\ trace.skipped > 0
    /\ trace.taken = << >>
    /\ ~panicked

\* run_executor has returned or panicked
Ended == panicked \/ pc = "done"

MidBlock == pc \in {"apply", "prove"} /\ ~panicked

\* The executor is between two blocks, or before the first block, of a range
BetweenBlocks == pc \in {"check", "fetch", "execute"} /\ ~panicked

\* The commitment of the ledger as the last completed block left it
LastBoundary ==
    IF trace.executed = << >> THEN commit(TestGenesis)
    ELSE trace.executed[Len(trace.executed)].state

\* C23: a block is applied in one exclusive-write critical section: a request
\* that reads the ledger never sees it in the middle of a block (some of the
\* block's transactions applied, or accounts updated and chain pointers not);
\* between two blocks of a range the lock is released and requests can read.
C23_BlockIsCritical ==
    /\ MidBlock => (lock.writer = "executor" /\ lock.readers = {})
    /\ lock.readers # {} => commit(TheState) = LastBoundary
    /\ BetweenBlocks => lock.writer # "executor"
    /\ (BetweenBlocks /\ lock.writer = "none" /\ \E h \in Handlers : api[h] = "idle")
          => ENABLED ReadLock

\* C23 witness: a request holds the read lock between the first and the
\* second block of a range
C23_Witness ==
    /\ lock.readers # {}
    /\ BetweenBlocks
    /\ event.num_blocks = 2
    /\ block_i = 1

\* C24: read-only queries are blocked only by a block application in
\* progress: the executor holds exclusive access to the ledger at no other
\* time (not while waiting for an event, collecting headers, fetching
\* commitments or namespace proofs, publishing, or submitting), and reads
\* never block each other.
C24_OnlyBlockApplication ==
    /\ (lock.writer = "executor" /\ ~panicked) => MidBlock
    /\ (~CanRead /\ ~panicked) => MidBlock
    /\ (CanRead /\ ~panicked /\ \E h \in Handlers : api[h] = "idle") => ENABLED ReadLock

\* C25: the per-block publish never stalls block processing: with no output
\* stream, no receiver, a dropped receiver or a receiver that never reads,
\* the executor goes on to the next block or to the submission; what the send
\* returns is ignored.
C25_PublishNeverStalls ==
    /\ []((pc = "publish" /\ ~panicked) => ENABLED Publish)
    /\ [][(pc = "publish" /\ ~panicked) =>
             /\ pc' = AfterBlock
             /\ block_i' = block_i + 1
             /\ ~panicked'
             /\ lock'.writer = "none"
             /\ UNCHANGED << ledger_vars, proofs >>]_vars
    /\ [][(pc = "prove" /\ ~panicked /\ ~panicked' /\ output_stream = None) =>
             (pc' = AfterBlock /\ block_i' = block_i + 1)]_vars

\* C25 witness: two blocks were published to a receiver that never reads,
\* and the executor has gone on to the submission
C25_Witness ==
    /\ output_stream # None
    /\ output_stream[1].receivers = "idle"
    /\ Len(output_stream[1].queued) = 2
    /\ pc = "send"

\* This step is the response to a balance or nonce request with an address
Answered(route) ==
    /\ response' # response
    /\ response'.route = route
    /\ response'.address # MalformedAddress

\* C28: get_balance and get_nonce return the stored balance and nonce of a
\* known address and 0 for an address with no account, never an error, and
\* never change the ledger; submit only forwards the transaction and never
\* changes the ledger; the ledger changes only in the executor's block
\* application.
C28_ReadsAndSubmitFrame ==
    /\ [][Answered("balance") =>
             /\ response'.kind = "Ok"
             /\ response'.value = IF response'.address \in DOMAIN accounts
                                   THEN accounts[response'.address].balance ELSE 0
             /\ UNCHANGED ledger_vars]_vars
    /\ [][Answered("nonce") =>
             /\ response'.kind = "Ok"
             /\ response'.value = IF response'.address \in DOMAIN accounts
                                   THEN accounts[response'.address].nonce ELSE 0
             /\ UNCHANGED ledger_vars]_vars
    /\ [][(\E h \in Handlers : api[h] = "submitting" \/ api'[h] = "submitting")
             => UNCHANGED ledger_vars]_vars
    /\ [][ledger_vars' # ledger_vars =>
             (pc = "apply" /\ lock.writer = "executor" /\ UNCHANGED << api, response >>)]_vars

\* C28 witness: a balance request for an address with no account was
\* answered 0
C28_Witness ==
    /\ response.kind = "Ok"
    /\ response.route = "balance"
    /\ response.address \notin DOMAIN accounts
    /\ response.value = 0

\* C29: the proofs the executor accumulates for a range chain, each proof's
\* new_state being the next proof's old_state, so BatchProof::generate in the
\* executor never returns OutOfOrder, however requests interleave.
C29_ProofsChain ==
    /\ \A n \in 1..(Len(proofs) - 1) : proofs[n].new_state = proofs[n + 1].old_state
    /\ batch_result.kind # "OutOfOrder"
    /\ trace.fault # Some("out of order")

\* C29 witness: a batch of two proofs was generated, and a request read bob's
\* balance between the two blocks
C29_Witness ==
    /\ Len(proofs) = 2
    /\ batch_result.kind = "BatchProof"
    /\ response.kind = "Ok"
    /\ response.route = "balance"
    /\ response.address = "bob"
    /\ response.value = 50

\* The range event in hand has been accepted by settlement
Settled == \E n \in DOMAIN Accepted : Accepted[n].event = event

\* C21: while a submission is pending the executor does not advance: it
\* takes no event and no header and applies no block; every range that
\* settlement accepts has had each of its blocks executed, in order, none
\* skipped; and (the executor scheduled, settlement accepting after at most
\* MaxRetries failures) every range event taken up is eventually accepted
\* unless a fatal fault ends the executor.
C21_BackpressureWithoutLoss ==
    /\ [][Retrying => UNCHANGED << commits_stream, header_stream, event, ledger_vars,
                                   blocks_done >>]_vars
    /\ [](\A n \in DOMAIN Accepted :
             ExecutedFor(Accepted[n].event) = RangeOf(Accepted[n].event))
    /\ [](\A m, n \in DOMAIN trace.executed :
             m < n => trace.executed[m].index < trace.executed[n].index)
    /\ (pc = "collect") ~> ((pc = "next_event" /\ Settled) \/ panicked)

\* C22 as stated: with several rollups on one consensus feed, this rollup's
\* ledger and the commitments it submits depend only on the transactions of
\* its own namespace: on two chains that agree on its namespace, whatever
\* they hold for the other rollup and whether or not the other executor is
\* stalled, the ledgers and the verify_blocks calls are the same.
C22_Independence ==
    /\ TheState = TwinState
    /\ proofs = twin.proofs
    /\ call = twin.call

\* A verify_blocks call has been built on both chains
BothSubmitted == call # [kind |-> "None"] /\ twin.call # [kind |-> "None"]

\* C22, amended: the accounts (balances and nonces) and the outcome of each
\* leaf depend only on the transactions of the rollup's own namespace, and
\* the other executor being stalled neither changes them nor holds this
\* executor up.  The block hash, the state commitments and the submitted
\* attestations are the same as long as the blocks have the same NMT roots,
\* and differ from the first block on whose root the other namespace changed.
C22_AccountsIndependent ==
    /\ accounts = twin.accounts
    /\ last.op = "execute_block" => last.results = last.twin_results
    /\ twin.same_roots => C22_Independence
    /\ ~twin.same_roots => commit(TheState) # commit(TwinState)
    /\ (last.op = "execute_block"
          /\ transactions_root(last.block) # transactions_root(last.twin_block)) =>
             /\ nmt_comm # twin.nmt_comm
             /\ proofs[Len(proofs)] # twin.proofs[Len(twin.proofs)]
    /\ (~twin.same_roots /\ last.op = "verify_blocks") => call # twin.call
    /\ (blocks_done < MaxRollupBlocks /\ ~panicked) => ENABLED ExecuteOnBoth
    /\ (proofs # << >> /\ ~panicked) => ENABLED SubmitOnBoth

\* C22 witness: the chains differed in a transaction of the other rollup and
\* the other executor is stalled on the second; this rollup has applied
\* transactions, its accounts are the same on both, and it has submitted
\* calls that differ.
C22_Witness ==
    /\ ~twin.same_roots
    /\ twin.stalled
    /\ last.op = "verify_blocks"
    /\ BothSubmitted
    /\ call # twin.call
    /\ accounts = twin.accounts
    /\ accounts # genesis

\* C31: as the doc comment of apply_transaction has it, a transaction is valid
\* iff its signature is valid, its nonce is greater than the sender's nonce
\* and the sender's balance covers the amount: apply_transaction returns Ok
\* exactly for these (stated for signers that have an account).
C31_DocumentedValidity ==
    [][AppliedStep =>
          LET stx == last'.tx
          IN (recover(stx).ok /\ Signer(stx) \in DOMAIN accounts) =>
                ((last'.result = Ok) <=>
                    /\ stx.transaction.nonce > accounts[Signer(stx)].nonce
                    /\ stx.transaction.amount <= accounts[Signer(stx)].balance)]_vars

\* What the observer's receiver has been sent, in order
Published == IF output_stream = None THEN << >> ELSE output_stream[1].queued

\* An observer channel is configured and its receiver is held
Observed == output_stream # None /\ output_stream[1].receivers = "idle"

C33_BatchNeverEmpty ==
    /\ (pc = "generate" /\ ~panicked) => proofs # << >>
    /\ trace.fault # Some("empty batch")
    /\ batch_result.kind # "Panic"

\* C34: the ledger never reflects a block whose namespace proof failed
\* verification: when execute_block is given a proof that does not verify
\* against the block's root and the VM id, the accounts and the two chain
\* pointers are afterwards those from before the block.
C34_UnverifiedBlockNotReflected ==
    [][(ExecutedStep /\ ~verify(last'.namespace_proof, last'.nmt_root, VmId)) =>
          UNCHANGED ledger_vars]_vars

\* C35: the new_state_commitment submitted for a range equals the new_state
\* of the BatchProof submitted with it, which is the ledger's commitment
\* right after the last block of the range, first_block + num_blocks - 1;
\* the ledger does not change between the execution of the last block and
\* the reading of the commitment for the submission.
C35_SubmittedCommitment ==
    /\ \A m \in DOMAIN trace.sent :
          LET sent_call == trace.sent[m].call
              range == trace.sent[m].event
          IN /\ sent_call.next_state_commitment = sent_call.proof.new_state
             /\ \E n \in DOMAIN trace.executed :
                   /\ trace.executed[n].index
                         = range.first_block_number + range.num_blocks - 1
                   /\ commitment_to_u256(trace.executed[n].state)
                         = sent_call.next_state_commitment
    /\ (pc = "generate" /\ proofs # << >> /\ ~panicked) =>
          commit(TheState) = proofs[Len(proofs)].new_state

\* The commitment of the ledger run_executor was started on
GenesisCommitment == commitment_to_u256(commit(StateOf(genesis, None, None)))

\* The calls built so far, one per range and in order: those settlement
\* accepted, and the one being sent
RangeCalls ==
    [n \in DOMAIN Accepted |-> Accepted[n].call]
       \o (IF pc \in {"send", "sleep"} THEN << call >> ELSE << >>)

\* C36: attestations chain across ranges: the old_state of the first
\* attestation is the commitment of the genesis ledger, and the old_state of
\* every later one is the new_state of the attestation of the range before.
C36_AttestationsChain ==
    /\ RangeCalls # << >> => RangeCalls[1].proof.old_state = GenesisCommitment
    /\ \A n \in 1..(Len(RangeCalls) - 1) :
          RangeCalls[n + 1].proof.old_state = RangeCalls[n].proof.new_state
    /\ \A m \in DOMAIN trace.sent :
          \E n \in DOMAIN RangeCalls : trace.sent[m].call = RangeCalls[n]

\* C36 witness: the attestation of a second range is being sent, the first
\* range of two blocks that changed the ledger was accepted
C36_Witness ==
    /\ pc = "send"
    /\ Len(RangeCalls) = 2
    /\ Accepted[1].event.num_blocks = 2
    /\ RangeCalls[1].proof.old_state # RangeCalls[1].proof.new_state
    /\ RangeCalls[2].proof.old_state = RangeCalls[1].proof.new_state
    /\ RangeCalls[2].proof.old_state # GenesisCommitment

\* The executor is waiting for a range event, or has just taken one up
AwaitingEvent == pc \in {"next_event", "collect", "done"} /\ ~panicked

\* C37: whenever the executor is waiting for a range event the ledger's
\* commitment is the new_state_commitment of the last submission settlement
\* accepted, or the genesis commitment if there is none; the blocks the
\* ledger is ahead of settlement by all belong to the one range in hand.
C37_LedgerMatchesSettlement ==
    /\ AwaitingEvent =>
          /\ commitment_to_u256(commit(TheState)) = rollup_contract.state_commitment
          /\ Accepted = << >> => rollup_contract.state_commitment = GenesisCommitment
          /\ Accepted # << >> =>
                rollup_contract.state_commitment
                   = Accepted[Len(Accepted)].call.next_state_commitment
    /\ \A n \in DOMAIN trace.executed :
          \/ \E m \in DOMAIN Accepted : Accepted[m].event = trace.executed[n].event
          \/ trace.executed[n].event = event /\ pc \notin {"next_event", "done"}

\* C37 witness: the executor waits for the next event after a range that
\* changed the ledger was accepted at the second attempt
C37_Witness ==
    /\ pc = "next_event"
    /\ ~panicked
    /\ Len(trace.sent) = 2
    /\ ~trace.sent[1].accepted
    /\ Len(Accepted) = 1
    /\ rollup_contract.state_commitment # GenesisCommitment
    /\ commitment_to_u256(commit(TheState)) = rollup_contract.state_commitment

\* The balance the credit of a valid transfer is added to: the destination's,
\* after the debit when the destination is the sender
CreditedBalance(accts, stx) ==
    IF stx.transaction.destination = Signer(stx)
    THEN accts[Signer(stx)].balance - stx.transaction.amount
    ELSE get_balance(accts, stx.transaction.destination)

\* C38: on every ledger reached from a genesis whose balances sum to at most
\* 2^64 - 1 (U64Max here), the credit destination_balance + amount of a
\* transaction that passed the nonce and balance checks does not exceed
\* 2^64 - 1: the call returns Ok with debit and credit both done, under
\* either build, and no call panics or leaves the debit without the credit.
C38_CreditNeverOverflows ==
    /\ [][AppliedStep =>
             /\ last'.result = Panic => TotalBalance(genesis) > U64Max
             /\ (C3_Valid(accounts, last'.tx) /\ TotalBalance(genesis) <= U64Max) =>
                   /\ CreditedBalance(accounts, last'.tx) + last'.tx.transaction.amount
                         <= U64Max
                   /\ last'.result = Ok
                   /\ accounts' = C4_Transferred(accounts, last'.tx)
             /\ last'.result \notin {Ok, Panic} => accounts' = accounts]_vars
    /\ [](TotalBalance(genesis) <= U64Max =>
             /\ ~panicked
             /\ TotalBalance(accounts) = TotalBalance(genesis)
             /\ \A a \in DOMAIN accounts : accounts[a].balance <= U64Max)

\* C38 witness: a genesis within 2^64 - 1 so close to it that the total and
\* the amount together pass it, and a transfer of that amount applied
C38_Witness ==
    /\ TotalBalance(genesis) <= U64Max
    /\ last.op = "apply_transaction"
    /\ last.result = Ok
    /\ last.tx.transaction.amount > 0
    /\ TotalBalance(genesis) + last.tx.transaction.amount > U64Max
    /\ TotalBalance(accounts) = TotalBalance(genesis)

\* The transaction is a transfer of its signer to itself
SelfTransfer(stx) == recover(stx).ok /\ stx.transaction.destination = Signer(stx)

\* C39: a self-transfer with the sender's next nonce and an amount within the
\* sender's balance returns Ok, leaves the sender's balance as it was, raises
\* the sender's nonce by 1 and creates no account; nothing else changes.
C39_SelfTransfer ==
    [][(AppliedStep /\ SelfTransfer(last'.tx) /\ C3_Valid(accounts, last'.tx)) =>
          /\ last'.result = Ok
          /\ DOMAIN accounts' = DOMAIN accounts
          /\ accounts'[Signer(last'.tx)].balance = accounts[Signer(last'.tx)].balance
          /\ accounts'[Signer(last'.tx)].nonce = accounts[Signer(last'.tx)].nonce + 1
          /\ accounts' = [accounts EXCEPT ![Signer(last'.tx)].nonce = @ + 1]
          /\ UNCHANGED << nmt_comm, prev_state_commitment >>]_vars

\* C39 witness: a self-transfer of a positive amount has been applied by an
\* account that had sent a transaction before
C39_Witness ==
    /\ last.op = "apply_transaction"
    /\ SelfTransfer(last.tx)
    /\ last.result = Ok
    /\ last.tx.transaction.amount > 0
    /\ last.tx.transaction.nonce = 2
    /\ accounts[Signer(last.tx)].nonce = 2
    /\ accounts[Signer(last.tx)].balance > 0

\* The amount of the last pair that names the address
LastAmount(pairs, a) ==
    LET n == CHOOSE i \in DOMAIN pairs :
                /\ pairs[i][1] = a
                /\ \A j \in (i + 1)..Len(pairs) : pairs[j][1] # a
    IN pairs[n][2]

\* Some address is named more than once, with different amounts
Conflicting(pairs) ==
    \E i, j \in DOMAIN pairs : pairs[i][1] = pairs[j][1] /\ pairs[i][2] # pairs[j][2]

\* C40: from_initial_balances creates exactly one account per distinct
\* address of its input, each with nonce 0, and sets no chain pointer; the
\* balance of an address named more than once is the amount of its last
\* pair; and the ledger depends on the order of the input exactly when some
\* address is named with different amounts.
C40_FromInitialBalances ==
    /\ DOMAIN accounts = {twin.pairs[i][1] : i \in DOMAIN twin.pairs}
    /\ \A a \in DOMAIN accounts :
          accounts[a] = [balance |-> LastAmount(twin.pairs, a), nonce |-> 0]
    /\ Len(tree) = Cardinality(DOMAIN accounts)
    /\ AsMap(tree) = accounts
    /\ last.op = "from_initial_balances" =>
          (nmt_comm = None /\ prev_state_commitment = None)
    /\ ~Conflicting(twin.pairs) =>
          from_initial_balances(twin.reordered).accounts = accounts
    /\ Conflicting(twin.pairs) <=>
          \E r \in Reorderings(twin.pairs) : from_initial_balances(r).accounts # accounts

\* C40 witness: a ledger just created from three pairs, the first and the
\* last for the same address with different amounts; the account has the
\* last amount
C40_Witness ==
    /\ last.op = "from_initial_balances"
    /\ Len(twin.pairs) = 3
    /\ twin.pairs[1][1] = twin.pairs[3][1]
    /\ twin.pairs[1][2] # twin.pairs[3][2]
    /\ twin.pairs[2][1] # twin.pairs[1][1]
    /\ accounts[twin.pairs[3][1]].balance = twin.pairs[3][2]
    /\ Cardinality(DOMAIN accounts) = 2

====
